---- MODULE Spec2Model ----
(***************************************************************************)
(* The keybinding engine of src/src/input.cpp: the binding table           *)
(* (input_manager::action_contexts) with its load and save, the context    *)
(* resolver, an input session (input_context) and the editing protocol.    *)
(***************************************************************************)
EXTENDS Integers, Sequences, FiniteSets, TLC

(***************************************************************************)
(* Program constants.                                                      *)
(***************************************************************************)
default_context_id == "default"
CATA_ERROR == "ERROR"
ANY_INPUT == "ANY_INPUT"
HELP_KEYBINDINGS == "HELP_KEYBINDINGS"
COORDINATE == "COORDINATE"
TIMEOUT == "TIMEOUT"
current_keybinding_version == 1

(***************************************************************************)
(* Bounds of the model.                                                    *)
(***************************************************************************)
\* the longest list of registered actions of the session
MaxRegistered == 2
\* the number of operations a behaviour runs after its first startup
MaxOps == 3

(***************************************************************************)
(* The finite universe the inputs are drawn from.                          *)
(***************************************************************************)
\* an input_event: device family, modifier set, code sequence; two events are
\* equal iff the three are equal
KeyA == [type |-> "keyboard_char", modifiers |-> {}, sequence |-> <<97>>]
KeyCtrlA == [type |-> "keyboard_char", modifiers |-> {"ctrl"}, sequence |-> <<97>>]
KeyCodeA == [type |-> "keyboard_code", modifiers |-> {}, sequence |-> <<97>>]
Events == {KeyA, KeyCtrlA}

ActionIds == {"UP", "QUIT"}
ContextIds == {default_context_id, "vehicle"}

EmptyMap == [x \in {} |-> x]

\* std::map::operator[] on a missing key inserts v; on a present key it is the identity
Put(m, k, v) == [x \in (DOMAIN m) \cup {k} |-> IF x = k THEN v ELSE m[x]]
Erase(m, k) == [x \in (DOMAIN m) \ {k} |-> m[x]]
Contains(seq, x) == \E i \in 1..Len(seq) : seq[i] = x
\* erase( remove( begin, end, x ), end )
RemoveAll(seq, x) == SelectSeq(seq, LAMBDA y : y # x)
\* the element of a set of one: The({f(v) : v \in {x}}) is f(x), for a statement
\* f that begins when the statements that yield x are over
The(set) == CHOOSE v \in set : TRUE

\* a default-constructed action_attributes
DefaultAttributes == [name |-> "", input_events |-> <<>>, is_user_created |-> FALSE]

VARIABLES
    action_contexts,     \* input_manager::action_contexts: context -> action id -> attributes
    lhs_first,           \* the build evaluates the left operand of an assignment first
    pc,                  \* the position of input_manager::init
    category,            \* input_context::category
    registered_actions,  \* input_context::registered_actions
    registered_any_input,      \* input_context::registered_any_input
    handling_coordinate_input, \* input_context::handling_coordinate_input
    action_name_overrides,     \* input_context::action_name_overrides
    last,                \* the last operation, its arguments and what it returned
    ops,                 \* the number of operations run so far, restarts included
    editors,             \* the display_menu calls in progress, the innermost last
    user_keybindings,    \* the file at PATH_INFO::user_keybindings()
    saved_from,          \* the table the last save wrote that file from, <<>> before
    resolved,            \* the action ids get_action_attributes was called with
    key_to_name_maps,    \* input_manager::*_keycode_to_keyname, by device family
    name_to_key_maps,    \* input_manager::*_keyname_to_keycode, by device family
    mapped,              \* the calls of init_keycode_mapping made so far
    input_timeout,       \* the timeout of the input manager, negative for none
    handling,            \* the handle_input calls in progress, the innermost last
    timeout,             \* input_context::timeout
    next_action,         \* input_context::next_action
    coordinate_input_received, \* input_context::coordinate_input_received
    coordinate,          \* input_context::coordinate
    keymap_file          \* the legacy keymap file as load_keyboard_settings reads it

sessionVars == <<category, registered_actions, registered_any_input,
                 handling_coordinate_input, action_name_overrides>>
diskVars == <<user_keybindings, saved_from>>
keyVars == <<key_to_name_maps, name_to_key_maps, mapped>>
waitVars == <<input_timeout, handling>>
inputVars == <<timeout, next_action, coordinate_input_received, coordinate>>
legacyVars == <<keymap_file>>
\* what neither the operations on the table nor the editor write
fixedVars == <<keyVars, inputVars, legacyVars>>
vars == <<action_contexts, lhs_first, pc, sessionVars, last, ops, editors, diskVars, resolved,
          fixedVars, waitVars>>

HasContext(T, c) == c \in DOMAIN T
HasEntry(T, c, a) == c \in DOMAIN T /\ a \in DOMAIN T[c]
\* action_contexts[c]: the context, created empty when missing
TouchContext(T, c) == IF c \in DOMAIN T THEN T ELSE Put(T, c, EmptyMap)
SetEntry(T, c, a, attrs) == Put(T, c, Put(TouchContext(T, c)[c], a, attrs))
EraseEntry(T, c, a) == Put(T, c, Erase(T[c], a))

get_default_action_name(T, action_id) ==
    IF ~HasContext(T, default_context_id) THEN action_id
    ELSE IF action_id \in DOMAIN T[default_context_id]
         THEN T[default_context_id][action_id].name
         ELSE action_id

\* the statement  default_action_context[action_id].name = get_default_action_name( action_id )
\* The two operands are function calls that are indeterminately sequenced before
\* C++17: evaluated right-to-left the name is looked up before the entry exists,
\* evaluated left-to-right operator[] inserts the entry first and the lookup
\* finds its empty name.
MaterializeName(T, action_id, lhsFirst) ==
    IF lhsFirst
    THEN get_default_action_name(
             SetEntry(T, default_context_id, action_id, DefaultAttributes), action_id)
    ELSE get_default_action_name(T, action_id)

\* mutant: the test  context != default_context_id  is dropped
get_action_attributes_NoDefaultTest(T, action_id, context) ==
    IF HasEntry(T, context, action_id)
    THEN [T |-> T, attrs |-> T[context][action_id], is_local |-> TRUE]
    ELSE LET T1 == SetEntry(T, default_context_id, action_id,
                       [DefaultAttributes EXCEPT
                           !.name = MaterializeName(TouchContext(T, default_context_id),
                                                    action_id, lhs_first)])
         IN [T |-> T1, attrs |-> T1[default_context_id][action_id], is_local |-> FALSE]

\* returns the table after the call, the attributes returned and *overwrites_default
get_action_attributes(T, action_id, context) ==
    IF context # default_context_id /\ HasEntry(T, context, action_id)
    THEN [T |-> T, attrs |-> T[context][action_id], is_local |-> TRUE]
    ELSE LET T1 == TouchContext(T, default_context_id)
             T2 == IF action_id \in DOMAIN T1[default_context_id]
                   THEN T1
                   ELSE SetEntry(T1, default_context_id, action_id,
                            [DefaultAttributes EXCEPT
                                !.name = MaterializeName(T1, action_id, lhs_first)])
         IN [T |-> T2, attrs |-> T2[default_context_id][action_id], is_local |-> FALSE]

\* mutant: the new entry starts with the events of the global entry
get_or_create_event_list_CopiesGlobal(T, action_descriptor, context) ==
    LET T1 == TouchContext(T, context)
    IN IF action_descriptor \in DOMAIN T1[context]
       THEN T1
       ELSE SetEntry(T1, context, action_descriptor,
                [name |-> get_default_action_name(T1, action_descriptor),
                 input_events |->
                     IF HasEntry(T1, default_context_id, action_descriptor)
                     THEN T1[default_context_id][action_descriptor].input_events
                     ELSE <<>>,
                 is_user_created |-> TRUE])

\* the table with the entry (context, action) present
get_or_create_event_list(T, action_descriptor, context) ==
    LET T1 == TouchContext(T, context)
    IN IF action_descriptor \in DOMAIN T1[context]
       THEN T1
       ELSE LET T2 == SetEntry(T1, context, action_descriptor, DefaultAttributes)
            IN SetEntry(T2, context, action_descriptor,
                   [name |-> get_default_action_name(T2, action_descriptor),
                    input_events |-> <<>>,
                    is_user_created |-> TRUE])

\* mutant: a user-created entry is cleared, not erased
remove_input_for_action_ClearsUserCreated(T, action_descriptor, context) ==
    IF ~HasEntry(T, context, action_descriptor) THEN T
    ELSE LET action == T[context][action_descriptor]
         IN IF action.input_events = <<>>
            THEN EraseEntry(T, context, action_descriptor)
            ELSE SetEntry(T, context, action_descriptor,
                     [action EXCEPT !.input_events = <<>>])

\* mutant: an entry is erased whatever it holds
remove_input_for_action_AlwaysErases(T, action_descriptor, context) ==
    IF ~HasEntry(T, context, action_descriptor) THEN T
    ELSE EraseEntry(T, context, action_descriptor)

remove_input_for_action(T, action_descriptor, context) ==
    IF ~HasEntry(T, context, action_descriptor) THEN T
    ELSE LET action == T[context][action_descriptor]
         IN IF action.is_user_created
            THEN EraseEntry(T, context, action_descriptor)
            ELSE IF action.input_events = <<>>
                 THEN EraseEntry(T, context, action_descriptor)
                 ELSE SetEntry(T, context, action_descriptor,
                          [action EXCEPT !.input_events = <<>>])

\* mutant: the scan for an equal event is dropped
add_input_for_action_AlwaysAppends(T, action_descriptor, context, event) ==
    LET T1 == get_or_create_event_list(T, action_descriptor, context)
        attrs == T1[context][action_descriptor]
    IN SetEntry(T1, context, action_descriptor,
           [attrs EXCEPT !.input_events = Append(attrs.input_events, event)])

add_input_for_action(T, action_descriptor, context, event) ==
    LET T1 == get_or_create_event_list(T, action_descriptor, context)
        attrs == T1[context][action_descriptor]
    IN IF Contains(attrs.input_events, event)
       THEN T1
       ELSE SetEntry(T1, context, action_descriptor,
                [attrs EXCEPT !.input_events = Append(attrs.input_events, event)])

(***************************************************************************)
(* input_context: the operations of a session S (its category, registered  *)
(* actions and name overrides) on the table T.                             *)
(***************************************************************************)
This ==
    [category |-> category,
     registered_actions |-> registered_actions,
     action_name_overrides |-> action_name_overrides]

action_uses_input(T, S, action_id, event) ==
    LET r == get_action_attributes(T, action_id, S.category)
    IN [T |-> r.T, ret |-> Contains(r.attrs.input_events, event)]

get_action_name(T, S, action_id) ==
    IF action_id \in DOMAIN S.action_name_overrides
    THEN [T |-> T, ret |-> S.action_name_overrides[action_id]]
    ELSE LET r1 == get_action_attributes(T, action_id, S.category)
         IN IF r1.attrs.name # ""
            THEN [T |-> r1.T, ret |-> r1.attrs.name]
            ELSE LET r2 == get_action_attributes(r1.T, action_id, default_context_id)
                 IN IF r2.attrs.name # ""
                    THEN [T |-> r2.T, ret |-> r2.attrs.name]
                    ELSE [T |-> r2.T, ret |-> action_id]

RECURSIVE get_conflicts_from(_, _, _, _)
get_conflicts_from(T, S, i, event) ==
    IF i > Len(S.registered_actions) THEN [T |-> T, ret |-> <<>>]
    ELSE LET action == S.registered_actions[i]
             u == action_uses_input(T, S, action, event)
             n == IF u.ret THEN get_action_name(u.T, S, action)
                  ELSE [T |-> u.T, ret |-> ""]
         IN The({LET rest == get_conflicts_from(this.T, S, i + 1, event)
                 IN [T |-> rest.T,
                     ret |-> IF this.ret = "" THEN rest.ret ELSE <<this.ret>> \o rest.ret] :
                 this \in {n}})

\* mutant: the bindings looked at are those of the global context
get_conflicts_InDefault(T, S, event) ==
    LET g == get_conflicts_from(T, [S EXCEPT !.category = default_context_id], 1, event)
    IN [T |-> T, ret |-> g.ret]

\* the names that enumerate_as_string joins: the non-empty strings the lambda
\* yields, in the order of registered_actions
get_conflicts(T, S, event) == get_conflicts_from(T, S, 1, event)

\* one iteration of the loop over registered_actions
ClearOne(T, S, registered_action, event) ==
    LET T1 == IF HasEntry(T, default_context_id, registered_action)
              THEN SetEntry(T, default_context_id, registered_action,
                       [T[default_context_id][registered_action] EXCEPT
                           !.input_events = RemoveAll(@, event)])
              ELSE T
    IN IF HasEntry(T1, S.category, registered_action)
       THEN SetEntry(T1, S.category, registered_action,
                [T1[S.category][registered_action] EXCEPT
                    !.input_events = RemoveAll(@, event)])
       ELSE T1

RECURSIVE ClearFrom(_, _, _, _)
ClearFrom(T, S, i, event) ==
    IF i > Len(S.registered_actions) THEN T
    ELSE ClearFrom(ClearOne(T, S, S.registered_actions[i], event), S, i + 1, event)

\* mutant: only the entries of the session's context are stripped
clear_conflicting_keybindings_LocalOnly(T, S, event) ==
    LET T0 == TouchContext(TouchContext(T, default_context_id), S.category)
    IN [c \in DOMAIN T0 |->
          [a \in DOMAIN T0[c] |->
             IF c = S.category /\ Contains(S.registered_actions, a)
             THEN [T0[c][a] EXCEPT !.input_events = RemoveAll(@, event)]
             ELSE T0[c][a]]]

clear_conflicting_keybindings(T, S, event) ==
    ClearFrom(TouchContext(TouchContext(T, default_context_id), S.category), S, 1, event)

RECURSIVE input_to_action_from(_, _, _, _)
input_to_action_from(T, S, i, inp) ==
    IF i > Len(S.registered_actions) THEN [T |-> T, ret |-> CATA_ERROR]
    ELSE LET action == S.registered_actions[i]
             r == get_action_attributes(T, action, S.category)
         IN IF Contains(r.attrs.input_events, inp)
            THEN [T |-> r.T, ret |-> action]
            ELSE input_to_action_from(r.T, S, i + 1, inp)

\* mutant: the scan does not stop at the first match
RECURSIVE input_to_action_LastFrom(_, _, _, _)
input_to_action_LastFrom(T, S, i, inp) ==
    IF i < 1 THEN [T |-> T, ret |-> CATA_ERROR]
    ELSE LET action == S.registered_actions[i]
             r == get_action_attributes(T, action, S.category)
         IN IF Contains(r.attrs.input_events, inp)
            THEN [T |-> r.T, ret |-> action]
            ELSE input_to_action_LastFrom(r.T, S, i - 1, inp)
input_to_action_LastMatch(T, S, inp) ==
    input_to_action_LastFrom(T, S, Len(S.registered_actions), inp)

input_to_action(T, S, inp) == input_to_action_from(T, S, 1, inp)

(***************************************************************************)
(* Key names.  The four pairs of tables of the input manager are state:    *)
(* init_keycode_mapping fills them through the add_*_keycode_pair methods, *)
(* one call at a time.  Of its calls the model makes those for ' ', 'a'    *)
(* and '~' of the loop over the printable characters (its first, one in    *)
(* the middle and its last), those for BACKTAB and SPACE                   *)
(* of the named character keys, and one for a gamepad and one for a mouse  *)
(* key, in the order of the source.                                        *)
(***************************************************************************)
\* codes that headers set; KEY_BTAB is outside ' '..'~'
KEY_BTAB == 353
JOY_LEFT == 257
MOUSE_MOVE == 5
\* std::numeric_limits<int>
INT_MAX == 2147483647
INT_MIN == (0 - INT_MAX) - 1

\* input_event_t of the four device families
Families == {"keyboard_char", "keyboard_code", "gamepad", "mouse"}

\* the tables of the input manager that is being constructed
NoKeymaps ==
    [key_to_name |-> [f \in Families |-> EmptyMap],
     name_to_key |-> [f \in Families |-> EmptyMap]]
Keymaps == [key_to_name |-> key_to_name_maps, name_to_key |-> name_to_key_maps]

\* mutant: a code or a name that is in the table keeps its first pairing
add_keycode_pair_KeepsFirst(maps, family, ch, name) ==
    [key_to_name |->
        [maps.key_to_name EXCEPT ![family] =
            IF ch \in DOMAIN @ THEN @ ELSE Put(@, ch, name)],
     name_to_key |->
        [maps.name_to_key EXCEPT ![family] =
            IF name \in DOMAIN @ THEN @ ELSE Put(@, name, ch)]]

\* the body the four add_*_keycode_pair methods share, on the tables of family
add_keycode_pair(maps, family, ch, name) ==
    [key_to_name |-> [maps.key_to_name EXCEPT ![family] = Put(@, ch, name)],
     name_to_key |-> [maps.name_to_key EXCEPT ![family] = Put(@, name, ch)]]

add_keyboard_char_keycode_pair(maps, ch, name) ==
    add_keycode_pair(maps, "keyboard_char", ch, name)
add_keyboard_code_keycode_pair(maps, ch, name) ==
    add_keycode_pair(maps, "keyboard_code", ch, name)
add_gamepad_keycode_pair(maps, ch, name) == add_keycode_pair(maps, "gamepad", ch, name)
add_mouse_keycode_pair(maps, ch, name) == add_keycode_pair(maps, "mouse", ch, name)

Pair(family, ch, name) == [family |-> family, ch |-> ch, name |-> name]
\* mutant: the loop over the printable characters stops in front of '~'
keycode_pairs_LoopStopsEarly ==
    <<Pair("keyboard_char", 32, " "), Pair("keyboard_code", 32, " "),
      Pair("keyboard_char", 97, "a"), Pair("keyboard_code", 97, "a"),
      Pair("keyboard_char", KEY_BTAB, "BACKTAB"),
      Pair("keyboard_char", 32, "SPACE"),
      Pair("gamepad", JOY_LEFT, "JOY_LEFT"),
      Pair("mouse", MOUSE_MOVE, "MOUSE_MOVE")>>

\* the calls of init_keycode_mapping, in order
keycode_pairs ==
    <<Pair("keyboard_char", 32, " "), Pair("keyboard_code", 32, " "),
      Pair("keyboard_char", 97, "a"), Pair("keyboard_code", 97, "a"),
      Pair("keyboard_char", 126, "~"), Pair("keyboard_code", 126, "~"),
      Pair("keyboard_char", KEY_BTAB, "BACKTAB"),
      Pair("keyboard_char", 32, "SPACE"),
      Pair("gamepad", JOY_LEFT, "JOY_LEFT"),
      Pair("mouse", MOUSE_MOVE, "MOUSE_MOVE")>>

\* one call of init_keycode_mapping
add_pair(maps, pair) ==
    IF pair.family = "keyboard_char"
    THEN add_keyboard_char_keycode_pair(maps, pair.ch, pair.name)
    ELSE IF pair.family = "keyboard_code"
    THEN add_keyboard_code_keycode_pair(maps, pair.ch, pair.name)
    ELSE IF pair.family = "gamepad"
    THEN add_gamepad_keycode_pair(maps, pair.ch, pair.name)
    ELSE add_mouse_keycode_pair(maps, pair.ch, pair.name)

\* the tables after the first n calls of init_keycode_mapping
RECURSIVE init_keycode_mapping(_)
init_keycode_mapping(n) ==
    IF n = 0 THEN NoKeymaps
    ELSE add_pair(init_keycode_mapping(n - 1), keycode_pairs[n])

keyboard_char_keyname_to_keycode == name_to_key_maps["keyboard_char"]
keyboard_char_keycode_to_keyname == key_to_name_maps["keyboard_char"]
keyboard_code_keyname_to_keycode == name_to_key_maps["keyboard_code"]
keyboard_code_keycode_to_keyname == key_to_name_maps["keyboard_code"]
gamepad_keyname_to_keycode == name_to_key_maps["gamepad"]
gamepad_keycode_to_keyname == key_to_name_maps["gamepad"]
mouse_keyname_to_keycode == name_to_key_maps["mouse"]
mouse_keycode_to_keyname == key_to_name_maps["mouse"]

\* std::string( "UNKNOWN_" ) + int_to_str( ch )
UnknownName(ch) == "UNKNOWN_" \o ToString(ch)

\* number[i], "" behind the end
CharAt(number, i) == IF i <= Len(number) THEN SubSeq(number, i, i) ELSE ""
Digit ==
    ("0" :> 0 @@ "1" :> 1 @@ "2" :> 2 @@ "3" :> 3 @@ "4" :> 4 @@ "5" :> 5 @@
     "6" :> 6 @@ "7" :> 7 @@ "8" :> 8 @@ "9" :> 9)

\* operator>> skips the white space in front of the number
RECURSIVE skip_ws(_, _)
skip_ws(number, i) == IF CharAt(number, i) = " " THEN skip_ws(number, i + 1) ELSE i

\* the digits from position i on: whether there was one, whether the value
\* left the range of int, and the value read so far
RECURSIVE read_digits(_, _, _)
read_digits(number, i, acc) ==
    IF CharAt(number, i) \notin DOMAIN Digit THEN acc
    ELSE LET d == Digit[CharAt(number, i)]
             overflow == acc.overflow \/ acc.value > (INT_MAX - d) \div 10
         IN read_digits(number, i + 1,
                [any |-> TRUE, overflow |-> overflow,
                 value |-> IF overflow THEN acc.value ELSE acc.value * 10 + d])

\* mutant: the sign in front of the digits is not read
str_to_int_Unsigned(number) ==
    LET r == read_digits(number, skip_ws(number, 1),
                         [any |-> FALSE, overflow |-> FALSE, value |-> 0])
    IN IF ~r.any THEN 0 ELSE IF r.overflow THEN INT_MAX ELSE r.value

\* buffer >> result: white space, a sign, then digits up to the first other
\* character; 0 when there is no digit, and the nearest int when the value
\* is out of range
str_to_int(number) ==
    LET i == skip_ws(number, 1)
        signed == CharAt(number, i) \in {"+", "-"}
        negative == CharAt(number, i) = "-"
        r == read_digits(number, IF signed THEN i + 1 ELSE i,
                         [any |-> FALSE, overflow |-> FALSE, value |-> 0])
    IN IF ~r.any THEN 0
       ELSE IF r.overflow THEN (IF negative THEN INT_MIN ELSE INT_MAX)
       ELSE IF negative THEN 0 - r.value ELSE r.value

keyname_to_keycode(inp_type) ==
    IF inp_type = "keyboard_char" THEN keyboard_char_keyname_to_keycode
    ELSE IF inp_type = "keyboard_code" THEN keyboard_code_keyname_to_keycode
    ELSE IF inp_type = "gamepad" THEN gamepad_keyname_to_keycode
    ELSE IF inp_type = "mouse" THEN mouse_keyname_to_keycode
    ELSE EmptyMap
keycode_to_keyname(inp_type) ==
    IF inp_type = "keyboard_char" THEN keyboard_char_keycode_to_keyname
    ELSE IF inp_type = "keyboard_code" THEN keyboard_code_keycode_to_keyname
    ELSE IF inp_type = "gamepad" THEN gamepad_keycode_to_keyname
    ELSE IF inp_type = "mouse" THEN mouse_keycode_to_keyname
    ELSE EmptyMap

get_keycode(inp_type, name) ==
    IF name \in DOMAIN keyname_to_keycode(inp_type)
    THEN keyname_to_keycode(inp_type)[name]
    ELSE IF Len(name) >= 8 /\ SubSeq(name, 1, 8) = "UNKNOWN_"
         THEN str_to_int(SubSeq(name, 9, Len(name)))
         ELSE 0

\* get_keyname( ch, inp_type, true ): the portable name
get_keyname(ch, inp_type) ==
    IF ch \in DOMAIN keycode_to_keyname(inp_type)
    THEN keycode_to_keyname(inp_type)[ch]
    ELSE UnknownName(ch)

(***************************************************************************)
(* input_manager::load, on a file given as its sequence of JSON objects    *)
(* (or "missing").  A call yields the table it leaves and whether it threw.*)
(***************************************************************************)
\* mutant: keyboard_any stands for a keyboard character only
new_event_types_AnyIsChar(input_method) ==
    IF input_method = "keyboard_any" \/ input_method = "keyboard_char"
       \/ input_method = "keyboard"
    THEN <<"keyboard_char">>
    ELSE IF input_method = "keyboard_code" THEN <<"keyboard_code">>
    ELSE IF input_method = "gamepad" THEN <<"gamepad">>
    ELSE IF input_method = "mouse" THEN <<"mouse">>
    ELSE <<>>

\* the types of new_events for an input_method, <<>> for one that is not known
new_event_types(input_method) ==
    IF input_method = "keyboard_any" THEN <<"keyboard_char", "keyboard_code">>
    ELSE IF input_method = "keyboard_char" \/ input_method = "keyboard"
         THEN <<"keyboard_char">>
    ELSE IF input_method = "keyboard_code" THEN <<"keyboard_code">>
    ELSE IF input_method = "gamepad" THEN <<"gamepad">>
    ELSE IF input_method = "mouse" THEN <<"mouse">>
    ELSE <<>>

\* mutant: a modifier that is not known is passed over
new_events_SkipsUnknownModifier(keybinding) ==
    LET types == new_event_types(keybinding.input_method)
        known == SelectSeq(keybinding.mod, LAMBDA str : str \in {"ctrl", "alt", "shift"})
    IN [thrown |-> types = <<>>,
        events |-> [i \in 1..Len(types) |->
                      [type |-> types[i],
                       modifiers |-> {known[j] : j \in 1..Len(known)},
                       sequence |-> [k \in 1..Len(keybinding.key) |->
                                       get_keycode(types[i], keybinding.key[k])]]]]

\* one object of "bindings": the events it adds, or the error it throws
new_events(keybinding) ==
    LET types == new_event_types(keybinding.input_method)
    IN [thrown |-> \/ types = <<>>
                   \/ \E i \in 1..Len(keybinding.mod) :
                         keybinding.mod[i] \notin {"ctrl", "alt", "shift"},
        events |-> [i \in 1..Len(types) |->
                      [type |-> types[i],
                       modifiers |-> {keybinding.mod[j] : j \in 1..Len(keybinding.mod)},
                       sequence |-> [k \in 1..Len(keybinding.key) |->
                                       get_keycode(types[i], keybinding.key[k])]]]]

\* the loop over "bindings" from the i-th on, events being those read so far
RECURSIVE read_bindings(_, _, _)
read_bindings(bindings, i, events) ==
    IF i > Len(bindings) THEN [thrown |-> FALSE, events |-> events]
    ELSE IF new_events(bindings[i]).thrown THEN [thrown |-> TRUE, events |-> events]
    ELSE read_bindings(bindings, i + 1, events \o new_events(bindings[i]).events)

\* the attributes the record is applied to
AttributesOf(T, context, action_id) ==
    IF action_id \in DOMAIN T[context] THEN T[context][action_id] ELSE DefaultAttributes

\* mutant: a user-preference record without events is applied like any other
load_record_AppliesEmpty(T, rec, is_user_preferences) ==
    LET version == IF is_user_preferences THEN rec.version
                   ELSE current_keybinding_version
        action_id == rec.id
        context == rec.category
        T1 == TouchContext(T, context)
        T2 == IF ~is_user_preferences /\ rec.has_name
              THEN SetEntry(T1, context, action_id,
                       [AttributesOf(T1, context, action_id) EXCEPT !.name = rec.name])
              ELSE T1
        read == read_bindings(rec.bindings, 1, <<>>)
    IN IF rec.type # "keybinding" THEN [T |-> T, thrown |-> FALSE]
       ELSE IF read.thrown THEN [T |-> T2, thrown |-> TRUE]
       ELSE LET attributes == AttributesOf(T2, context, action_id)
                     events == IF is_user_preferences /\ version = 0
                               THEN read.events \o
                                    SelectSeq(attributes.input_events,
                                              LAMBDA evt : evt.type = "keyboard_code")
                               ELSE read.events
                 IN [T |-> SetEntry(T2, context, action_id,
                               [attributes EXCEPT
                                   !.input_events = events,
                                   !.is_user_created =
                                       IF rec.has_is_user_created
                                       THEN rec.is_user_created ELSE @]),
                     thrown |-> FALSE]

\* mutant: the keyboard-code events are not carried into a version-0 record
load_record_NeverCarries(T, rec, is_user_preferences) ==
    LET version == IF is_user_preferences THEN rec.version
                   ELSE current_keybinding_version
        action_id == rec.id
        context == rec.category
        T1 == TouchContext(T, context)
        T2 == IF ~is_user_preferences /\ rec.has_name
              THEN SetEntry(T1, context, action_id,
                       [AttributesOf(T1, context, action_id) EXCEPT !.name = rec.name])
              ELSE T1
        read == read_bindings(rec.bindings, 1, <<>>)
    IN IF rec.type # "keybinding" THEN [T |-> T, thrown |-> FALSE]
       ELSE IF read.thrown THEN [T |-> T2, thrown |-> TRUE]
       ELSE IF ~is_user_preferences
               \/ read.events # <<>>
               \/ context = default_context_id
               \/ action_id \in DOMAIN T2[context]
            THEN LET attributes == AttributesOf(T2, context, action_id)
                     events == read.events
                 IN [T |-> SetEntry(T2, context, action_id,
                               [attributes EXCEPT
                                   !.input_events = events,
                                   !.is_user_created =
                                       IF rec.has_is_user_created
                                       THEN rec.is_user_created ELSE @]),
                     thrown |-> FALSE]
            ELSE [T |-> T2, thrown |-> FALSE]

\* mutant: the events of an entry that holds some are not replaced
load_record_KeepsExisting(T, rec, is_user_preferences) ==
    LET version == IF is_user_preferences THEN rec.version
                   ELSE current_keybinding_version
        action_id == rec.id
        context == rec.category
        T1 == TouchContext(T, context)
        T2 == IF ~is_user_preferences /\ rec.has_name
              THEN SetEntry(T1, context, action_id,
                       [AttributesOf(T1, context, action_id) EXCEPT !.name = rec.name])
              ELSE T1
        read == read_bindings(rec.bindings, 1, <<>>)
    IN IF rec.type # "keybinding" THEN [T |-> T, thrown |-> FALSE]
       ELSE IF read.thrown THEN [T |-> T2, thrown |-> TRUE]
       ELSE IF ~is_user_preferences
               \/ read.events # <<>>
               \/ context = default_context_id
               \/ action_id \in DOMAIN T2[context]
            THEN LET attributes == AttributesOf(T2, context, action_id)
                     events == IF is_user_preferences /\ version = 0
                               THEN read.events \o
                                    SelectSeq(attributes.input_events,
                                              LAMBDA evt : evt.type = "keyboard_code")
                               ELSE read.events
                 IN [T |-> SetEntry(T2, context, action_id,
                               [attributes EXCEPT
                                   !.input_events = IF @ = <<>> THEN events ELSE @,
                                   !.is_user_created =
                                       IF rec.has_is_user_created
                                       THEN rec.is_user_created ELSE @]),
                     thrown |-> FALSE]
            ELSE [T |-> T2, thrown |-> FALSE]

\* mutant: a record without events erases the entry
load_record_UnbindErases(T, rec, is_user_preferences) ==
    LET version == IF is_user_preferences THEN rec.version
                   ELSE current_keybinding_version
        action_id == rec.id
        context == rec.category
        T1 == TouchContext(T, context)
        T2 == IF ~is_user_preferences /\ rec.has_name
              THEN SetEntry(T1, context, action_id,
                       [AttributesOf(T1, context, action_id) EXCEPT !.name = rec.name])
              ELSE T1
        read == read_bindings(rec.bindings, 1, <<>>)
    IN IF rec.type # "keybinding" THEN [T |-> T, thrown |-> FALSE]
       ELSE IF read.thrown THEN [T |-> T2, thrown |-> TRUE]
       ELSE IF ~is_user_preferences
               \/ read.events # <<>>
               \/ context = default_context_id
               \/ action_id \in DOMAIN T2[context]
            THEN LET attributes == AttributesOf(T2, context, action_id)
                     events == IF is_user_preferences /\ version = 0
                               THEN read.events \o
                                    SelectSeq(attributes.input_events,
                                              LAMBDA evt : evt.type = "keyboard_code")
                               ELSE read.events
                 IN IF events = <<>> THEN [T |-> EraseEntry(T2, context, action_id),
                                           thrown |-> FALSE]
                    ELSE
                    [T |-> SetEntry(T2, context, action_id,
                               [attributes EXCEPT
                                   !.input_events = events,
                                   !.is_user_created =
                                       IF rec.has_is_user_created
                                       THEN rec.is_user_created ELSE @]),
                     thrown |-> FALSE]
            ELSE [T |-> T2, thrown |-> FALSE]

load_record(T, rec, is_user_preferences) ==
    LET version == IF is_user_preferences THEN rec.version
                   ELSE current_keybinding_version
        action_id == rec.id
        context == rec.category
        T1 == TouchContext(T, context)
        T2 == IF ~is_user_preferences /\ rec.has_name
              THEN SetEntry(T1, context, action_id,
                       [AttributesOf(T1, context, action_id) EXCEPT !.name = rec.name])
              ELSE T1
        read == read_bindings(rec.bindings, 1, <<>>)
    IN IF rec.type # "keybinding" THEN [T |-> T, thrown |-> FALSE]
       ELSE IF read.thrown THEN [T |-> T2, thrown |-> TRUE]
       ELSE IF ~is_user_preferences
               \/ read.events # <<>>
               \/ context = default_context_id
               \/ action_id \in DOMAIN T2[context]
            THEN LET attributes == AttributesOf(T2, context, action_id)
                     events == IF is_user_preferences /\ version = 0
                               THEN read.events \o
                                    SelectSeq(attributes.input_events,
                                              LAMBDA evt : evt.type = "keyboard_code")
                               ELSE read.events
                 IN [T |-> SetEntry(T2, context, action_id,
                               [attributes EXCEPT
                                   !.input_events = events,
                                   !.is_user_created =
                                       IF rec.has_is_user_created
                                       THEN rec.is_user_created ELSE @]),
                     thrown |-> FALSE]
            ELSE [T |-> T2, thrown |-> FALSE]

RECURSIVE load_records(_, _, _, _)
load_records(T, file, i, is_user_preferences) ==
    IF i > Len(file) THEN [T |-> T, thrown |-> FALSE]
    ELSE IF load_record(T, file[i], is_user_preferences).thrown
         THEN load_record(T, file[i], is_user_preferences)
         ELSE load_records(load_record(T, file[i], is_user_preferences).T, file, i + 1,
                           is_user_preferences)

\* thrown: the file cannot be read and the table is still empty
load_throws(T, file) == file = "missing" /\ T = EmptyMap

load(T, file, is_user_preferences) ==
    IF file = "missing" THEN [T |-> T, thrown |-> load_throws(T, file)]
    ELSE load_records(T, file, 1, is_user_preferences)

\* the files at PATH_INFO::keybindings(), keybindings_vehicle(), user_keybindings()
Binding(input_method, mod, key) == [input_method |-> input_method, mod |-> mod, key |-> key]
BindA == Binding("keyboard_char", <<>>, <<"a">>)
BindCtrlA == Binding("keyboard_char", <<"ctrl">>, <<"a">>)
BindCodeA == Binding("keyboard_code", <<>>, <<"a">>)
Record(id, context, has_name, name, bindings) ==
    [type |-> "keybinding", id |-> id, category |-> context, has_name |-> has_name,
     name |-> name, version |-> current_keybinding_version, bindings |-> bindings,
     has_is_user_created |-> FALSE, is_user_created |-> FALSE]
UserRecord(id, context, version, bindings, user_created) ==
    [type |-> "keybinding", id |-> id, category |-> context, has_name |-> FALSE,
     name |-> "", version |-> version, bindings |-> bindings,
     has_is_user_created |-> user_created, is_user_created |-> user_created]

keybindings_json ==
    <<Record("UP", default_context_id, TRUE, "Move up", <<BindCodeA, BindA>>),
      Record("QUIT", default_context_id, TRUE, "Quit", <<BindCtrlA>>)>>
keybindings_up_json == <<Record("UP", default_context_id, TRUE, "Move up", <<BindA>>)>>
vehicle_json == <<Record("UP", "vehicle", FALSE, "", <<BindCtrlA>>)>>
KeybindingsFiles ==
    {"missing",
     keybindings_up_json,
     keybindings_json}
VehicleFiles == {"missing", vehicle_json}
UserFiles ==
    {"missing",
     <<UserRecord("QUIT", "vehicle", current_keybinding_version, <<BindA>>, TRUE)>>}

(***************************************************************************)
(* input_manager::save: the objects written to the user keybindings file,  *)
(* as load reads them back.  The events of the table are of the four       *)
(* families that save has a name for.                                      *)
(***************************************************************************)
\* the strings of the model in the order a std::map< std::string, ... > keeps them
KeyOrder ==
    <<"ADD_GLOBAL", "ADD_LOCAL", "ANY_INPUT", "COORDINATE", "DEFAULTMODE", "DOWN", "EXECUTE",
      "HELP_KEYBINDINGS",
      "PAGE_DOWN", "PAGE_UP", "QUIT", "REMOVE", "UP", "default", "vehicle">>
Keys(map) == SelectSeq(KeyOrder, LAMBDA k : k \in DOMAIN map)

\* an object of "bindings": input_method, mod and key of the event
save_event(event) ==
    Binding(event.type,
            SelectSeq(<<"ctrl", "alt", "shift">>, LAMBDA mod : mod \in event.modifiers),
            [i \in 1..Len(event.sequence) |-> get_keyname(event.sequence[i], event.type)])

\* the object of an action: id, version, category, is_user_created when true, bindings
save_action(context, action_id, attributes) ==
    UserRecord(action_id, context, current_keybinding_version,
               [i \in 1..Len(attributes.input_events) |->
                   save_event(attributes.input_events[i])],
               attributes.is_user_created)

\* the objects of the contexts from the i-th on
RECURSIVE save_contexts(_, _)
save_contexts(T, i) ==
    IF i > Len(Keys(T)) THEN <<>>
    ELSE [j \in 1..Len(Keys(T[Keys(T)[i]])) |->
             save_action(Keys(T)[i], Keys(T[Keys(T)[i]])[j],
                         T[Keys(T)[i]][Keys(T[Keys(T)[i]])[j]])]
         \o save_contexts(T, i + 1)

save(T) == save_contexts(T, 1)

(***************************************************************************)
(* The state machine.                                                      *)
(***************************************************************************)
\* before: the entry (c, a) as it was when the operation began, <<>> when there was none
\* seen: the table a query of the editor read, <<>> outside the editor
\* call: the handle_input call that consumed an event or returned, <<>> otherwise
NoOp ==
    [op |-> "none", a |-> "", c |-> "", e |-> KeyA, ret |-> "", is_local |-> FALSE,
     before |-> <<>>, seen |-> <<>>, changed |-> FALSE, call |-> <<>>]
EntryOf(T, c, a) == IF HasEntry(T, c, a) THEN <<T[c][a]>> ELSE <<>>

\* a default-constructed input_event
NoEvent == [type |-> "error", modifiers |-> {}, sequence |-> <<>>]

\* what load_keyboard_settings hands init when there is no legacy keymap file
NoKeymapFile == [loaded_from |-> "", keymap |-> EmptyMap, unbound |-> {}]

\* the state after construction: an empty table, init at the given call of
\* init_keycode_mapping (behind the last one the key names are entered, the
\* timeout is reset and the first load is next), and a session of the given
\* categories that has registered nothing yet
InitFrom(categories, user_files, keymap_files, calls) ==
    /\ action_contexts = EmptyMap
    /\ lhs_first \in BOOLEAN
    /\ pc = IF calls < Len(keycode_pairs) THEN "init_keycode_mapping" ELSE "load_keybindings"
    /\ category \in categories
    /\ registered_actions = <<>>
    /\ registered_any_input = FALSE
    /\ handling_coordinate_input = FALSE
    /\ action_name_overrides = EmptyMap
    /\ last = NoOp
    /\ ops = 0
    /\ editors = <<>>
    /\ user_keybindings \in user_files
    /\ saved_from = <<>>
    /\ resolved = {}
    /\ key_to_name_maps = init_keycode_mapping(calls).key_to_name
    /\ name_to_key_maps = init_keycode_mapping(calls).name_to_key
    /\ mapped = calls
    /\ input_timeout = -1
    /\ handling = <<>>
    /\ timeout = -1
    /\ next_action = NoEvent
    /\ coordinate_input_received = FALSE
    /\ coordinate = 0
    /\ keymap_file \in keymap_files

InitWith(categories, user_files) ==
    InitFrom(categories, user_files, {NoKeymapFile}, Len(keycode_pairs))

InitIn(categories) == InitWith(categories, UserFiles)

Init == InitIn({default_context_id})

\* input_manager::init, one load at a time
LoadStep(here, files, is_user_preferences, next) ==
    /\ pc = here
    /\ \E file \in files :
          /\ pc' = IF load(action_contexts, file, is_user_preferences).thrown
                   THEN "fatal" ELSE next
          /\ action_contexts' = load(action_contexts, file, is_user_preferences).T
          /\ last' = [NoOp EXCEPT !.op = here, !.ret = file, !.seen = <<action_contexts>>]
    /\ UNCHANGED <<lhs_first, sessionVars, ops, editors, diskVars, resolved,
                 fixedVars, waitVars>>

LoadKeybindings == LoadStep("load_keybindings", KeybindingsFiles, FALSE, "load_vehicle")
LoadVehicle == LoadStep("load_vehicle", VehicleFiles, FALSE, "load_user")
LoadUser == LoadStep("load_user", {user_keybindings}, TRUE, "ready")

\* input_context::register_action( action_descriptor, name ) on the session
register_action(action_descriptor, name) ==
    /\ registered_any_input' =
          IF action_descriptor = "ANY_INPUT" THEN TRUE ELSE registered_any_input
    /\ handling_coordinate_input' =
          IF action_descriptor # "ANY_INPUT" /\ action_descriptor = "COORDINATE"
          THEN TRUE ELSE handling_coordinate_input
    /\ registered_actions' = Append(registered_actions, action_descriptor)
    /\ action_name_overrides' =
          IF name # "" THEN Put(action_name_overrides, action_descriptor, name)
          ELSE action_name_overrides

\* input_context::register_action( action_descriptor ): a session registers its
\* actions, those of ids, before it is used
Register(ids) ==
    /\ pc = "ready"
    /\ editors = <<>>
    /\ handling = <<>>
    /\ ops = 0
    /\ Len(registered_actions) < MaxRegistered
    /\ \E action_descriptor \in ids :
          /\ register_action(action_descriptor, "")
          /\ last' = [NoOp EXCEPT !.op = "register", !.a = action_descriptor]
    /\ UNCHANGED <<action_contexts, lhs_first, pc, category, ops, editors, diskVars, resolved,
                 fixedVars, waitVars>>

RegisterAction == Register(ActionIds)

\* input_manager::get_action_attributes( action_id, context, &overwrites_default )
Resolve ==
    /\ pc = "ready"
    /\ editors = <<>>
    /\ ops < MaxOps
    /\ ops' = ops + 1
    /\ \E action_id \in ActionIds, context \in ContextIds :
          LET r == get_action_attributes(action_contexts, action_id, context)
          IN /\ action_contexts' = r.T
             /\ last' = [NoOp EXCEPT !.op = "resolve", !.a = action_id, !.c = context,
                                     !.ret = r.attrs, !.is_local = r.is_local,
                                     !.before = EntryOf(action_contexts,
                                                        default_context_id, action_id)]
             /\ resolved' = resolved \cup {action_id}
    /\ UNCHANGED <<lhs_first, pc, sessionVars, editors, diskVars, fixedVars, waitVars>>

\* input_manager::add_input_for_action( action_descriptor, context, event )
Add ==
    /\ pc = "ready"
    /\ editors = <<>>
    /\ ops < MaxOps
    /\ ops' = ops + 1
    /\ \E action_descriptor \in ActionIds, context \in ContextIds, event \in Events :
          /\ action_contexts' =
                 add_input_for_action(action_contexts, action_descriptor, context, event)
          /\ last' = [NoOp EXCEPT !.op = "add", !.a = action_descriptor, !.c = context,
                                  !.e = event,
                                  !.before = EntryOf(action_contexts, context,
                                                     action_descriptor)]
    /\ UNCHANGED <<lhs_first, pc, sessionVars, editors, diskVars, resolved, fixedVars,
                 waitVars>>

\* input_manager::remove_input_for_action( action_descriptor, context )
Remove ==
    /\ pc = "ready"
    /\ editors = <<>>
    /\ ops < MaxOps
    /\ ops' = ops + 1
    /\ \E action_descriptor \in ActionIds, context \in ContextIds :
          /\ action_contexts' =
                 remove_input_for_action(action_contexts, action_descriptor, context)
          /\ last' = [NoOp EXCEPT !.op = "remove", !.a = action_descriptor, !.c = context,
                                  !.before = EntryOf(action_contexts, context,
                                                     action_descriptor)]
    /\ UNCHANGED <<lhs_first, pc, sessionVars, editors, diskVars, resolved, fixedVars,
                 waitVars>>

\* input_context::input_to_action( inp )
Lookup ==
    /\ pc = "ready"
    /\ editors = <<>>
    /\ ops < MaxOps
    /\ ops' = ops + 1
    /\ \E inp \in Events :
          LET r == input_to_action(action_contexts, This, inp)
          IN /\ action_contexts' = r.T
             /\ last' = [NoOp EXCEPT !.op = "lookup", !.e = inp, !.ret = r.ret]
    /\ UNCHANGED <<lhs_first, pc, sessionVars, editors, diskVars, resolved, fixedVars,
                 waitVars>>

\* input_context::clear_conflicting_keybindings( event )
ClearConflicts ==
    /\ pc = "ready"
    /\ editors = <<>>
    /\ ops < MaxOps
    /\ ops' = ops + 1
    /\ \E event \in Events :
          /\ action_contexts' = clear_conflicting_keybindings(action_contexts, This, event)
          /\ last' = [NoOp EXCEPT !.op = "clear_conflicts", !.e = event]
    /\ UNCHANGED <<lhs_first, pc, sessionVars, editors, diskVars, resolved, fixedVars,
                 waitVars>>

\* the binding store and the context resolver
Next ==
    \/ LoadKeybindings
    \/ LoadVehicle
    \/ LoadUser
    \/ Resolve
    \/ Add
    \/ Remove

Spec == Init /\ [][Next]_vars

\* an input session on top of them
InitSession == InitIn(ContextIds)

\* a session on the shipped keybindings, with any vehicle and user file
NextSession ==
    \/ LoadStep("load_keybindings", {keybindings_json}, FALSE, "load_vehicle")
    \/ LoadVehicle
    \/ LoadUser
    \/ RegisterAction
    \/ Add
    \/ Lookup
    \/ ClearConflicts

SpecSession == InitSession /\ [][NextSession]_vars

\* input_manager::init on files of every kind that load tells apart
BadMethod == Binding("joystick", <<>>, <<"a">>)
BadMod == Binding("keyboard_char", <<"ctrl", "meta">>, <<"a">>)
AnyKey == Binding("keyboard_any", <<"shift">>, <<"a", "BACKTAB">>)
LoadKeybindingsFiles ==
    {"missing",
     <<>>,
     keybindings_json,
     <<Record("UP", default_context_id, TRUE, "Move up", <<AnyKey, BindCtrlA>>)>>,
     <<Record("UP", default_context_id, TRUE, "Move up",
              <<Binding("keyboard", <<>>, <<" ">>), BindCodeA>>),
       Record("QUIT", default_context_id, TRUE, "Quit", <<BindA, BadMethod>>)>>}
LoadVehicleFiles ==
    {"missing",
     vehicle_json,
     <<Record("QUIT", "vehicle", TRUE, "Leave", <<BindA>>),
       Record("UP", "vehicle", TRUE, "Climb", <<BindCodeA, BadMod>>)>>}
LoadUserFiles ==
    {"missing",
     <<UserRecord("QUIT", "vehicle", current_keybinding_version, <<BindA>>, TRUE)>>,
     <<UserRecord("UP", default_context_id, 0, <<BindCtrlA>>, FALSE)>>,
     <<UserRecord("UP", default_context_id, current_keybinding_version, <<BindCtrlA>>,
                  FALSE)>>,
     <<UserRecord("UP", default_context_id, 2, <<AnyKey>>, FALSE)>>,
     <<UserRecord("UP", "vehicle", current_keybinding_version, <<>>, FALSE)>>,
     <<UserRecord("UP", "vehicle", 0, <<>>, FALSE)>>,
     <<UserRecord("QUIT", default_context_id, current_keybinding_version, <<>>, FALSE)>>,
     <<UserRecord("UP", default_context_id, 0, <<>>, FALSE)>>,
     <<UserRecord("QUIT", "vehicle", current_keybinding_version, <<>>, TRUE)>>,
     <<[UserRecord("UP", default_context_id, current_keybinding_version, <<BindCtrlA>>,
                   FALSE) EXCEPT !.type = "keymap"]>>,
     <<UserRecord("UP", default_context_id, current_keybinding_version,
                  <<Binding("gamepad", <<>>, <<"UNKNOWN_1">>),
                    Binding("mouse", <<"alt", "ctrl">>, <<"a">>)>>, FALSE),
       UserRecord("QUIT", default_context_id, 0, <<BindA, BadMod>>, FALSE),
       UserRecord("UP", "vehicle", current_keybinding_version, <<BindA>>, TRUE)>>}

InitLoad == InitWith({default_context_id}, LoadUserFiles)

NextLoad ==
    \/ LoadStep("load_keybindings", LoadKeybindingsFiles, FALSE, "load_vehicle")
    \/ LoadStep("load_vehicle", LoadVehicleFiles, FALSE, "load_user")
    \/ LoadUser

SpecLoad == InitLoad /\ [][NextLoad]_vars

\* input_manager::save(); when write_to_file fails the file stays as it was
Save ==
    /\ pc = "ready"
    /\ editors = <<>>
    /\ \E save_fails \in BOOLEAN :
          IF save_fails
          THEN /\ UNCHANGED diskVars
               /\ last' = [NoOp EXCEPT !.op = "save_failed"]
          ELSE /\ user_keybindings' = save(action_contexts)
               /\ saved_from' = <<action_contexts>>
               /\ last' = [NoOp EXCEPT !.op = "save"]
    /\ UNCHANGED <<action_contexts, lhs_first, pc, sessionVars, ops, editors, resolved,
                 fixedVars, waitVars>>

\* the program ends and is started again: inp_mngr is constructed anew, init is
\* about to run, the session of the category has registered nothing yet, and
\* the user keybindings file is the one on disk
Restart ==
    /\ pc = "ready"
    /\ editors = <<>>
    /\ handling = <<>>
    /\ ops < MaxOps
    /\ ops' = ops + 1
    /\ action_contexts' = EmptyMap
    /\ pc' = "load_keybindings"
    /\ registered_actions' = <<>>
    /\ registered_any_input' = FALSE
    /\ handling_coordinate_input' = FALSE
    /\ action_name_overrides' = EmptyMap
    /\ resolved' = {}
    /\ input_timeout' = -1
    /\ handling' = <<>>
    /\ timeout' = -1
    /\ next_action' = NoEvent
    /\ coordinate_input_received' = FALSE
    /\ coordinate' = 0
    /\ last' = [NoOp EXCEPT !.op = "restart"]
    /\ UNCHANGED <<lhs_first, category, editors, diskVars, keyVars, legacyVars>>

\* the store of a session of the vehicle context, saved and rebuilt from the
\* same shipped files
InitStore == InitIn({"vehicle"})

NextStore ==
    \/ LoadStep("load_keybindings", {keybindings_up_json}, FALSE, "load_vehicle")
    \/ LoadStep("load_vehicle", {vehicle_json}, FALSE, "load_user")
    \/ LoadUser
    \/ RegisterAction
    \/ Resolve
    \/ Add
    \/ Remove
    \/ ClearConflicts
    \/ Save
    \/ Restart

SpecStore == InitStore /\ [][NextStore]_vars

(***************************************************************************)
(* input_context::display_menu, the interactive editor of the session S    *)
(* it is called on.  What the editor's own session ctxt reads (the action  *)
(* its lookup returns and the raw character) is an input of each step; the *)
(* filter phrase is left empty and every row is on screen.                 *)
(***************************************************************************)
\* the most rows a hotkey selects among
MaxHotkeys == 1
\* the most changes of bindings made in the editor
MaxEdits == 2

\* mutant: the session of the editor registers HELP_KEYBINDINGS always
EditorContext_AlwaysHelp(edited_category) ==
    [category |-> HELP_KEYBINDINGS,
     registered_actions |->
         <<"UP", "DOWN", "PAGE_DOWN", "PAGE_UP", "REMOVE", "ADD_LOCAL", "ADD_GLOBAL",
           "EXECUTE", "QUIT", ANY_INPUT, HELP_KEYBINDINGS>>,
     action_name_overrides |-> ("UP" :> "Scroll up" @@ "DOWN" :> "Scroll down")]

\* input_context ctxt( "HELP_KEYBINDINGS" ) and what it registers
EditorContext(edited_category) ==
    [category |-> HELP_KEYBINDINGS,
     registered_actions |->
         <<"UP", "DOWN", "PAGE_DOWN", "PAGE_UP", "REMOVE", "ADD_LOCAL", "ADD_GLOBAL",
           "EXECUTE", "QUIT", ANY_INPUT>> \o
         (IF edited_category # HELP_KEYBINDINGS THEN <<HELP_KEYBINDINGS>> ELSE <<>>),
     action_name_overrides |-> ("UP" :> "Scroll up" @@ "DOWN" :> "Scroll down")]

\* get_input_for_action for the first n registered actions of S, in order
RECURSIVE ScanUpTo(_, _, _)
ScanUpTo(T, S, n) ==
    IF n = 0 THEN T
    ELSE The({get_action_attributes(T1, S.registered_actions[n], S.category).T :
                 T1 \in {ScanUpTo(T, S, n - 1)}})

\* the table after the call (the hotkeys left are not modelled)
get_available_single_char_hotkeys(T, S) == ScanUpTo(T, S, Len(S.registered_actions))

IndexOf(seq, x) == CHOOSE i \in 1..Len(seq) : seq[i] = x /\ \A j \in 1..(i - 1) : seq[j] # x

\* the table after ctxt.input_to_action returned action
ScanFor(T, S, action) ==
    IF action = TIMEOUT THEN T
    ELSE IF Contains(S.registered_actions, action) /\ action # ANY_INPUT
         THEN ScanUpTo(T, S, IndexOf(S.registered_actions, action))
         ELSE ScanUpTo(T, S, Len(S.registered_actions))

org_registered_actions(S) ==
    SelectSeq(S.registered_actions, LAMBDA a : a # ANY_INPUT /\ a # COORDINATE)

\* the redraw callback: get_action_attributes, get_action_name and get_desc of
\* the first n rows
RECURSIVE redraw_rows(_, _, _, _)
redraw_rows(T, S, rows, n) ==
    IF n = 0 THEN T
    ELSE The({The({get_action_name(T2, S, rows[n]).T :
                      T2 \in {get_action_attributes(T1, rows[n], S.category).T}}) :
                 T1 \in {redraw_rows(T, S, rows, n - 1)}})
redraw(T, S) == redraw_rows(T, S, org_registered_actions(S), Len(org_registered_actions(S)))

\* the table after filter_strings_by_phrase read the names of the first n strings
RECURSIVE filter_strings_by_phrase(_, _, _, _)
filter_strings_by_phrase(T, S, strings, n) ==
    IF n = 0 THEN T
    ELSE The({get_action_name(T1, S, strings[n]).T :
                 T1 \in {filter_strings_by_phrase(T, S, strings, n - 1)}})

\* a handle_input call: its argument and the timeout it found
Call(timeout_arg, old_timeout) == [timeout |-> timeout_arg, old_timeout |-> old_timeout]

\* the timeout of the manager when the loop of the call is entered
handle_input_begin(call) == IF call.timeout >= 0 THEN call.timeout ELSE call.old_timeout

\* mutant: TIMEOUT is returned from inside the loop
handle_input_end_ReturnsInLoop(call, result) ==
    IF result = TIMEOUT THEN handle_input_begin(call) ELSE call.old_timeout

\* the timeout of the manager when the call returns result: whichever break
\* left the loop, the statement after the loop sets the timeout found
handle_input_end(call, result) == call.old_timeout

\* a display_menu call: the session edited, the editor's session, the locals
NewFrame(S, T, permit_execute_action) ==
    [S |-> S,
     ctxt |-> EditorContext(S.category),
     status |-> "s_show",
     changed |-> FALSE,
     old_action_contexts |-> T,
     permit_execute_action |-> permit_execute_action,
     resume |-> FALSE]

Top == editors[Len(editors)]
SetTop(frame) == [editors EXCEPT ![Len(editors)] = frame]

RawChars == {"+", "=", "-", ".", "other"}

\* the status the hardcoded keys and the mode actions select, "none" for the rest
Mode(action, raw_input_char, permit_execute_action) ==
    IF action = "ADD_LOCAL" \/ raw_input_char = "+" THEN "s_add"
    ELSE IF action = "ADD_GLOBAL" \/ raw_input_char = "=" THEN "s_add_global"
    ELSE IF action = "REMOVE" \/ raw_input_char = "-" THEN "s_remove"
    ELSE IF (action = "EXECUTE" \/ raw_input_char = ".") /\ permit_execute_action
         THEN "s_execute"
         ELSE "none"

\* the keys pressed: one bound to each action the loop tells apart (UP for the
\* scrolling ones), and unbound ones
EditorKeys ==
    {"UP", "REMOVE", "ADD_LOCAL", "ADD_GLOBAL", "EXECUTE", "QUIT", ANY_INPUT,
     HELP_KEYBINDINGS}

\* what ctxt hands the loop: input_to_action of the raw input while showing,
\* handle_input otherwise (HELP_KEYBINDINGS opens the nested editor: EditorHelp)
EditorInputs(frame) ==
    LET registered == {frame.ctxt.registered_actions[i] :
                          i \in 1..Len(frame.ctxt.registered_actions)} \cap EditorKeys
    IN IF frame.status = "s_show"
       THEN (registered \ {ANY_INPUT}) \cup {CATA_ERROR}
       ELSE (registered \ {HELP_KEYBINDINGS}) \cup {TIMEOUT}

\* the table when the loop body dispatches: redrawn, input read, rows filtered
Prepared(T, frame, action) ==
    The({The({filter_strings_by_phrase(T2, frame.S, org_registered_actions(frame.S),
                                       Len(org_registered_actions(frame.S))) :
              T2 \in {ScanFor(T1, frame.ctxt, action)}}) :
         T1 \in {redraw(T, frame.S)}})

Blocked(frame, action) == org_registered_actions(frame.S) = <<>> /\ action # "QUIT"

\* display_menu( true ) is entered on the session (the editor that
\* handle_input opens is the one entered with false)
EditorOpen ==
    /\ pc = "ready"
    /\ editors = <<>>
    /\ ops < MaxEdits
    /\ \E permit_execute_action \in {TRUE} :
          LET T == get_available_single_char_hotkeys(action_contexts, EditorContext(category))
          IN /\ action_contexts' = T
             /\ editors' = <<NewFrame(This, T, permit_execute_action)>>
    /\ last' = [NoOp EXCEPT !.op = "editor_open"]
    /\ UNCHANGED <<lhs_first, pc, sessionVars, ops, diskVars, resolved, fixedVars,
                 waitVars>>

\* a loop iteration that only selects the mode: by the action of a bound key,
\* or by the character of an unbound one
EditorSetMode ==
    /\ editors # <<>>
    /\ ~Top.resume
    /\ \E action \in EditorInputs(Top), raw_input_char \in RawChars :
          /\ raw_input_char # "other" => action \in {ANY_INPUT, CATA_ERROR}
          /\ ~Blocked(Top, action)
          /\ Mode(action, raw_input_char, Top.permit_execute_action) # "none"
          /\ action_contexts' = Prepared(action_contexts, Top, action)
          /\ editors' = SetTop([Top EXCEPT !.status =
                                   Mode(action, raw_input_char, Top.permit_execute_action)])
          /\ last' = [NoOp EXCEPT !.op = "editor_step"]
    /\ UNCHANGED <<lhs_first, pc, sessionVars, ops, diskVars, resolved, fixedVars,
                 waitVars>>

\* a loop iteration that changes nothing but what it materializes: scrolling, a
\* timeout, HELP_KEYBINDINGS while showing, a key that is no hotkey of a row
EditorOther ==
    /\ editors # <<>>
    /\ ~Top.resume
    /\ \E action \in EditorInputs(Top) :
          /\ Blocked(Top, action)
             \/ /\ Mode(action, "other", Top.permit_execute_action) = "none"
                /\ action # "QUIT"
          /\ action_contexts' =
                IF Blocked(Top, action)
                THEN Prepared(action_contexts, Top, action)
                ELSE IF action = HELP_KEYBINDINGS
                     THEN get_available_single_char_hotkeys(
                              Prepared(action_contexts, Top, action), Top.ctxt)
                     ELSE Prepared(action_contexts, Top, action)
          /\ last' = [NoOp EXCEPT !.op = "editor_step"]
    /\ UNCHANGED <<lhs_first, pc, sessionVars, ops, editors, diskVars, resolved,
                 fixedVars, waitVars>>

\* the rows a hotkey can select
Rows(S) ==
    LET n == Len(org_registered_actions(S))
    IN 1..(IF n < MaxHotkeys THEN n ELSE MaxHotkeys)

\* the steps of a selection that leaves the bindings as they are
Unchanged(T, how) ==
    /\ action_contexts' = T
    /\ editors' = SetTop([Top EXCEPT !.status = "s_show"])
    /\ ops' = ops
    /\ last' = how
    /\ UNCHANGED <<diskVars, waitVars>>

\* the selection of a row while removing
SelectRemove(action_id, confirmed) ==
    \E T \in {Prepared(action_contexts, Top, ANY_INPUT)} :
    \E r \in {get_action_attributes(T, action_id, Top.S.category)} :
    \E n \in {get_action_name(r.T, Top.S, action_id)} :
       LET is_empty == r.attrs.input_events = <<>>
           category_to_access == IF r.is_local THEN Top.S.category ELSE default_context_id
       IN IF (r.is_local \/ ~is_empty) /\ confirmed
          THEN /\ ops < MaxEdits
               /\ action_contexts' = remove_input_for_action(n.T, action_id, category_to_access)
               /\ editors' = SetTop([Top EXCEPT !.status = "s_show", !.changed = TRUE])
               /\ ops' = ops + 1
               /\ last' = [NoOp EXCEPT !.op = "editor_remove", !.a = action_id,
                                       !.c = category_to_access, !.is_local = r.is_local,
                                       !.before = <<n.T>>]
               /\ UNCHANGED <<diskVars, waitVars>>
          ELSE Unchanged(n.T, [NoOp EXCEPT !.op = "editor_kept"])

\* the selection of a row while adding
SelectAdd(action_id, new_event, resolve_conflicts) ==
    \E T \in {Prepared(action_contexts, Top, ANY_INPUT)} :
    \E r \in {get_action_attributes(T, action_id, Top.S.category)} :
    \E n \in {get_action_name(r.T, Top.S, action_id)} :
       IF Top.status = "s_add_global" /\ r.is_local
       THEN Unchanged(n.T, [NoOp EXCEPT !.op = "editor_refused"])
       ELSE \E u \in {action_uses_input(n.T, Top.S, action_id, new_event)} :
          IF u.ret
          THEN Unchanged(u.T, [NoOp EXCEPT !.op = "editor_used"])
          ELSE \E g \in {get_conflicts(u.T, Top.S, new_event)} :
             LET has_conflicts == g.ret # <<>>
                 category_to_access == IF Top.status = "s_add_global"
                                       THEN default_context_id
                                       ELSE Top.S.category
                 asked == [NoOp EXCEPT !.a = action_id, !.c = category_to_access,
                                       !.e = new_event, !.ret = g.ret,
                                       !.is_local = has_conflicts /\ resolve_conflicts,
                                       !.before = <<n.T>>, !.seen = <<u.T>>]
             IN IF has_conflicts /\ ~resolve_conflicts
                THEN Unchanged(g.T, [asked EXCEPT !.op = "editor_conflict"])
                ELSE /\ ops < MaxEdits
                     /\ action_contexts' =
                           add_input_for_action(
                               IF has_conflicts
                               THEN clear_conflicting_keybindings(g.T, Top.S, new_event)
                               ELSE g.T,
                               action_id, category_to_access, new_event)
                     /\ editors' = SetTop([Top EXCEPT !.status = "s_show",
                                                      !.changed = TRUE])
                     /\ ops' = ops + 1
                     /\ last' = [asked EXCEPT !.op = "editor_add"]
                     /\ UNCHANGED <<diskVars, waitVars>>

\* what the return of display_menu leaves: the frame is gone; the handle_input
\* that called it sets the timeout of its argument, then the one it found, and
\* has HELP_KEYBINDINGS to return (to the loop of the editor below, if any)
Leave(how) ==
    /\ editors' =
          IF Len(editors) = 1 THEN <<>>
          ELSE [SubSeq(editors, 1, Len(editors) - 1) EXCEPT ![Len(editors) - 1].resume = TRUE]
    /\ IF handling # <<>>
       THEN /\ input_timeout' = handle_input_end(handling[Len(handling)], HELP_KEYBINDINGS)
            /\ handling' = SubSeq(handling, 1, Len(handling) - 1)
       ELSE UNCHANGED waitVars
    /\ last' = [NoOp EXCEPT !.op = how, !.before = <<action_contexts>>,
                            !.seen = <<Top.old_action_contexts>>,
                            !.changed = Top.changed,
                            !.ret = IF handling # <<>> THEN HELP_KEYBINDINGS ELSE "",
                            !.call = IF handling # <<>> THEN <<handling[Len(handling)]>>
                                     ELSE <<>>]

\* mutant: the snapshot is not put back
Finish_KeepsEdits(T) ==
    \/ /\ ~Top.changed
       /\ action_contexts' = T
       /\ Leave("editor_closed")
       /\ UNCHANGED diskVars
    \/ /\ Top.changed
       /\ \E save_changes \in BOOLEAN, save_fails \in BOOLEAN :
             /\ ~save_changes => ~save_fails
             /\ action_contexts' = T
             /\ Leave(IF ~save_changes THEN "editor_discarded"
                      ELSE IF save_fails THEN "editor_save_failed"
                      ELSE "editor_saved")
             /\ IF save_changes /\ ~save_fails
                THEN user_keybindings' = save(T) /\ saved_from' = <<T>>
                ELSE UNCHANGED diskVars

\* the statements after the loop: save (which may fail), or put the snapshot back
Finish(T) ==
    \/ /\ ~Top.changed
       /\ action_contexts' = T
       /\ Leave("editor_closed")
       /\ UNCHANGED diskVars
    \/ /\ Top.changed
       /\ \E save_changes \in BOOLEAN, save_fails \in BOOLEAN :
             /\ ~save_changes => ~save_fails
             /\ action_contexts' = IF save_changes THEN T ELSE Top.old_action_contexts
             /\ Leave(IF ~save_changes THEN "editor_discarded"
                      ELSE IF save_fails THEN "editor_save_failed"
                      ELSE "editor_saved")
             /\ IF save_changes /\ ~save_fails
                THEN user_keybindings' = save(T) /\ saved_from' = <<T>>
                ELSE UNCHANGED diskVars

\* a loop iteration in which a hotkey selects a row
EditorSelect ==
    /\ editors # <<>>
    /\ ~Top.resume
    /\ Top.status # "s_show"
    /\ \E action_index \in Rows(Top.S) :
          LET action_id == org_registered_actions(Top.S)[action_index]
          IN \/ /\ Top.status = "s_remove"
                /\ \E confirmed \in BOOLEAN : SelectRemove(action_id, confirmed)
             \/ /\ Top.status \in {"s_add", "s_add_global"}
                /\ \E new_event \in Events, resolve_conflicts \in BOOLEAN :
                      SelectAdd(action_id, new_event, resolve_conflicts)
             \/ /\ Top.status = "s_execute"
                /\ Top.permit_execute_action
                /\ \E T \in {Prepared(action_contexts, Top, ANY_INPUT)} :
                   \E r \in {get_action_attributes(T, action_id, Top.S.category)} :
                      Finish(get_action_name(r.T, Top.S, action_id).T)
                /\ ops' = ops
    /\ UNCHANGED <<lhs_first, pc, sessionVars, resolved, fixedVars>>

\* mutant: QUIT leaves the loop whatever the status
EditorQuit_EndsAtOnce ==
    /\ editors # <<>>
    /\ ~Top.resume
    /\ Finish(Prepared(action_contexts, Top, "QUIT"))
    /\ UNCHANGED <<lhs_first, pc, sessionVars, ops, resolved, fixedVars>>

\* QUIT: back to showing, or out of the loop
EditorQuit ==
    /\ editors # <<>>
    /\ ~Top.resume
    /\ IF Top.status # "s_show"
       THEN /\ action_contexts' = Prepared(action_contexts, Top, "QUIT")
            /\ editors' = SetTop([Top EXCEPT !.status = "s_show"])
            /\ last' = [NoOp EXCEPT !.op = "editor_step", !.a = "QUIT"]
            /\ UNCHANGED <<diskVars, waitVars>>
       ELSE Finish(Prepared(action_contexts, Top, "QUIT"))
    /\ UNCHANGED <<lhs_first, pc, sessionVars, ops, resolved, fixedVars>>

\* ctxt.handle_input meets HELP_KEYBINDINGS: display_menu is entered on ctxt
EditorHelp ==
    /\ editors # <<>>
    /\ ~Top.resume
    /\ Top.status # "s_show"
    /\ Contains(Top.ctxt.registered_actions, HELP_KEYBINDINGS)
    /\ ops < MaxEdits
    /\ LET T == ScanFor(redraw(action_contexts, Top.S), Top.ctxt, HELP_KEYBINDINGS)
           opened == get_available_single_char_hotkeys(T, EditorContext(Top.ctxt.category))
       IN /\ action_contexts' = opened
          /\ editors' = Append(editors, NewFrame(Top.ctxt, opened, FALSE))
    /\ handling' = Append(handling, Call(-1, input_timeout))
    /\ input_timeout' = -1
    /\ last' = [NoOp EXCEPT !.op = "editor_help"]
    /\ UNCHANGED <<lhs_first, pc, sessionVars, ops, diskVars, resolved, fixedVars>>

\* the rest of the iteration whose handle_input returned HELP_KEYBINDINGS
EditorResume ==
    /\ editors # <<>>
    /\ Top.resume
    /\ \E raw_input_char \in RawChars :
          LET T == filter_strings_by_phrase(action_contexts, Top.S,
                                            org_registered_actions(Top.S),
                                            Len(org_registered_actions(Top.S)))
              mode == Mode(HELP_KEYBINDINGS, raw_input_char, Top.permit_execute_action)
          IN IF Blocked(Top, HELP_KEYBINDINGS)
             THEN /\ action_contexts' = T
                  /\ editors' = SetTop([Top EXCEPT !.resume = FALSE])
             ELSE IF mode # "none"
             THEN /\ action_contexts' = T
                  /\ editors' = SetTop([Top EXCEPT !.resume = FALSE, !.status = mode])
             ELSE /\ action_contexts' = get_available_single_char_hotkeys(T, Top.ctxt)
                  /\ editors' = SetTop([Top EXCEPT !.resume = FALSE])
    /\ last' = [NoOp EXCEPT !.op = "editor_step"]
    /\ UNCHANGED <<lhs_first, pc, sessionVars, ops, diskVars, resolved, fixedVars,
                 waitVars>>

\* the session is one of a context of its own; the files are the shipped ones
\* and no user file
InitEditor == InitWith(ContextIds \ {default_context_id}, {"missing"})

NextEditor ==
    \/ LoadStep("load_keybindings", {keybindings_json}, FALSE, "load_vehicle")
    \/ LoadStep("load_vehicle", {vehicle_json}, FALSE, "load_user")
    \/ LoadUser
    \/ RegisterAction
    \/ EditorOpen
    \/ EditorSetMode
    \/ EditorOther
    \/ EditorSelect
    \/ EditorQuit
    \/ EditorHelp
    \/ EditorResume

SpecEditor == InitEditor /\ [][NextEditor]_vars

\* shipped keybindings in which UP and QUIT share a key in "default"; with the
\* local binding that vehicle_json gives UP, no two actions share a key in
\* "vehicle"
shared_key_json ==
    <<Record("UP", default_context_id, TRUE, "Move up", <<BindA>>),
      Record("QUIT", default_context_id, TRUE, "Quit", <<BindA>>)>>

\* the editor on a session of "vehicle" over these files
NextShared ==
    \/ LoadStep("load_keybindings", {shared_key_json}, FALSE, "load_vehicle")
    \/ LoadStep("load_vehicle", {vehicle_json}, FALSE, "load_user")
    \/ LoadUser
    \/ RegisterAction
    \/ EditorOpen
    \/ EditorSetMode
    \/ EditorOther
    \/ EditorSelect
    \/ EditorQuit

\* a user keybindings file with a user-created binding of QUIT in "default",
\* as add_input_for_action and save leave it for an action the shipped files
\* do not have
user_global_json ==
    <<UserRecord("QUIT", default_context_id, current_keybinding_version, <<BindCtrlA>>, TRUE)>>

InitShared == InitWith(ContextIds \ {default_context_id}, {"missing", user_global_json})

SpecShared == InitShared /\ [][NextShared]_vars

(***************************************************************************)
(* The key names: init_keycode_mapping call by call, then the lookups by   *)
(* name and by code.                                                       *)
(***************************************************************************)
\* the types looked up: the four device families, and one that has no table
InputTypes == Families \cup {"error"}
\* the names looked up: registered ones, and unregistered ones with and
\* without the prefix
KeyNames ==
    {"a", " ", "~", "SPACE", "BACKTAB", "JOY_LEFT", "MOUSE_MOVE", "TAB", "",
     "UNKNOWN", "unknown_5", "UNKNOWN_", "UNKNOWN_0", "UNKNOWN_9999", "UNKNOWN_007",
     "UNKNOWN_-5", "UNKNOWN_+3", "UNKNOWN_ 7", "UNKNOWN_12ab", "UNKNOWN_x1",
     "UNKNOWN_2147483647", "UNKNOWN_2147483648"}
\* the codes looked up: registered ones, and unregistered ones up to the ends of int
KeyCodes == {32, 97, 126, KEY_BTAB, JOY_LEFT, MOUSE_MOVE, 0, 9999, 0 - 5, INT_MAX, INT_MIN}

\* one call of init_keycode_mapping; reset_timeout follows the last one
InitKeycodeMapping ==
    /\ pc = "init_keycode_mapping"
    /\ mapped < Len(keycode_pairs)
    /\ \E pair \in {keycode_pairs[mapped + 1]} :
          /\ key_to_name_maps' = add_pair(Keymaps, pair).key_to_name
          /\ name_to_key_maps' = add_pair(Keymaps, pair).name_to_key
          /\ last' = [NoOp EXCEPT !.op = "add_keycode_pair", !.c = pair.family,
                                  !.a = pair.name, !.ret = pair.ch,
                                  !.before = <<Keymaps>>]
    /\ mapped' = mapped + 1
    /\ pc' = IF mapped + 1 = Len(keycode_pairs) THEN "load_keybindings" ELSE pc
    /\ input_timeout' = IF mapped + 1 = Len(keycode_pairs) THEN 0 - 1 ELSE input_timeout
    /\ UNCHANGED <<action_contexts, lhs_first, sessionVars, ops, editors, diskVars, resolved,
                   handling, inputVars, legacyVars>>

\* input_manager::get_keycode( inp_type, name )
GetKeycode ==
    /\ pc # "init_keycode_mapping"
    /\ \E inp_type \in InputTypes, name \in KeyNames :
          last' = [NoOp EXCEPT !.op = "get_keycode", !.c = inp_type, !.a = name,
                               !.ret = get_keycode(inp_type, name)]
    /\ UNCHANGED <<action_contexts, lhs_first, pc, sessionVars, ops, editors, diskVars,
                   resolved, fixedVars, waitVars>>

\* input_manager::get_keyname( ch, inp_type, true )
GetKeyname ==
    /\ pc # "init_keycode_mapping"
    /\ \E inp_type \in InputTypes, ch \in KeyCodes :
          last' = [NoOp EXCEPT !.op = "get_keyname", !.c = inp_type, !.before = <<ch>>,
                               !.ret = get_keyname(ch, inp_type)]
    /\ UNCHANGED <<action_contexts, lhs_first, pc, sessionVars, ops, editors, diskVars,
                   resolved, fixedVars, waitVars>>

\* keyboard_mode, the preferred mode a session is constructed with
KeyboardModes == {"keychar", "keycode"}
\* input_event_t
EventTypes == InputTypes \cup {"timeout"}

\* whether the build has TILES and is not for Android
is_keycode_mode_supported(tiles, android) == tiles /\ ~android

\* mutant: the keyboard-char family is enabled only when it is preferred
is_event_type_enabled_OnlyPreferred(type, preferred_keyboard_mode, supported, gamepad) ==
    IF type = "error" THEN FALSE
    ELSE IF type = "timeout" THEN TRUE
    ELSE IF type = "keyboard_char" THEN preferred_keyboard_mode = "keychar"
    ELSE IF type = "keyboard_code" THEN preferred_keyboard_mode = "keycode" /\ supported
    ELSE IF type = "gamepad" THEN gamepad
    ELSE TRUE

\* input_context::is_event_type_enabled( type ) of a session with the
\* preferred mode, in a build where is_keycode_mode_supported() is supported
\* and while gamepad_available() is gamepad
is_event_type_enabled(type, preferred_keyboard_mode, supported, gamepad) ==
    IF type = "error" THEN FALSE
    ELSE IF type = "timeout" THEN TRUE
    ELSE IF type = "keyboard_char" THEN preferred_keyboard_mode = "keychar" \/ ~supported
    ELSE IF type = "keyboard_code" THEN preferred_keyboard_mode = "keycode" /\ supported
    ELSE IF type = "gamepad" THEN gamepad
    ELSE TRUE

\* is_event_type_enabled( type ) on a session constructed with a preferred
\* keyboard mode; last.before holds the build's settings and the gamepad
IsEventTypeEnabled ==
    /\ pc # "init_keycode_mapping"
    /\ \E type \in EventTypes, mode \in KeyboardModes, tiles \in BOOLEAN,
          android \in BOOLEAN, gamepad \in BOOLEAN :
          last' = [NoOp EXCEPT !.op = "is_event_type_enabled", !.c = type, !.a = mode,
                               !.before = <<tiles, android, gamepad>>,
                               !.ret = is_event_type_enabled(type, mode,
                                          is_keycode_mode_supported(tiles, android),
                                          gamepad)]
    /\ UNCHANGED <<action_contexts, lhs_first, pc, sessionVars, ops, editors, diskVars,
                   resolved, fixedVars, waitVars>>

InitKeys == InitFrom({default_context_id}, {"missing"}, {NoKeymapFile}, 0)

NextKeys ==
    \/ InitKeycodeMapping
    \/ GetKeycode
    \/ GetKeyname
    \/ IsEventTypeEnabled

SpecKeys == InitKeys /\ [][NextKeys]_vars

(***************************************************************************)
(* input_context::handle_input on the session, one event at a time.  The   *)
(* event the manager hands out is an input of each iteration of the loop;  *)
(* HELP_KEYBINDINGS enters the editor, whose steps are those above, and    *)
(* the call returns when the editor does.                                  *)
(***************************************************************************)
MOUSE_BUTTON_LEFT == 1
MouseMove == [type |-> "mouse", modifiers |-> {}, sequence |-> <<MOUSE_MOVE>>]
MouseLeft == [type |-> "mouse", modifiers |-> {}, sequence |-> <<MOUSE_BUTTON_LEFT>>]
TimeoutEvent == [type |-> "timeout", modifiers |-> {}, sequence |-> <<>>]

\* the events the manager hands out: bound keys, an unbound key, a bound and
\* an unbound mouse event, and the timeout
InputEvents == {KeyA, KeyCtrlA, KeyCodeA, MouseMove, MouseLeft, TimeoutEvent}
\* the positions of the mouse
MousePositions == {1, 2}
\* the timeouts a session is given, and those the manager is given otherwise
SessionTimeouts == {1}
ManagerTimeouts == {0 - 1, 2}
\* the actions a session registers
InputActionIds == {"UP", HELP_KEYBINDINGS, ANY_INPUT, COORDINATE}

BindMouseMove == Binding("mouse", <<>>, <<"MOUSE_MOVE">>)
\* the shipped file: UP on a key and on a mouse event, the editor on a key
input_json ==
    <<Record("UP", default_context_id, TRUE, "Move up", <<BindA, BindMouseMove>>),
      Record(HELP_KEYBINDINGS, default_context_id, TRUE, "Keybindings", <<BindCtrlA>>)>>

\* what an iteration leaves when it neither returns nor enters the editor on
\* an event that resolves to action
Outcome(exit, result, T, received, coord) ==
    [exit |-> exit, result |-> result, T |-> T,
     coordinate_input_received |-> received, coordinate |-> coord]

\* mutant: no mouse event is ignored
handle_action_NoIgnoredMouse(T, any_input, coordinate_input, received, coord, event, mouse_pos, action) ==
    Outcome(IF action # CATA_ERROR \/ any_input THEN "break" ELSE "continue",
            IF action # CATA_ERROR THEN action
            ELSE IF any_input THEN ANY_INPUT ELSE CATA_ERROR,
            T,
            event.type = "mouse",
            IF event.type = "mouse" THEN mouse_pos ELSE coord)

\* mutant: ANY_INPUT is the result for every event that resolves to nothing
handle_action_AnyInputAlways(T, any_input, coordinate_input, received, coord, event, mouse_pos, action) ==
    IF event.type = "mouse" /\ (~coordinate_input /\ action = CATA_ERROR)
    THEN Outcome("continue", CATA_ERROR, T, received, coord)
    ELSE Outcome("break",
                 IF action # CATA_ERROR THEN action ELSE ANY_INPUT,
                 T,
                 event.type = "mouse",
                 IF event.type = "mouse" THEN mouse_pos ELSE coord)

\* mutant: the loop ends on an event that resolves to nothing
handle_action_ReturnsError(T, any_input, coordinate_input, received, coord, event, mouse_pos, action) ==
    IF event.type = "mouse" /\ (~coordinate_input /\ action = CATA_ERROR)
    THEN Outcome("continue", CATA_ERROR, T, received, coord)
    ELSE Outcome("break",
                 IF action # CATA_ERROR THEN action
                 ELSE IF any_input THEN ANY_INPUT ELSE CATA_ERROR,
                 T,
                 event.type = "mouse",
                 IF event.type = "mouse" THEN mouse_pos ELSE coord)

\* lines 1076-1100: the event is no timeout and action is not HELP_KEYBINDINGS
handle_action(T, any_input, coordinate_input, received, coord, event, mouse_pos, action) ==
    IF event.type = "mouse" /\ (~coordinate_input /\ action = CATA_ERROR)
    THEN Outcome("continue", CATA_ERROR, T, received, coord)
    ELSE Outcome(IF action # CATA_ERROR \/ any_input THEN "break" ELSE "continue",
                 IF action # CATA_ERROR THEN action
                 ELSE IF any_input THEN ANY_INPUT ELSE CATA_ERROR,
                 T,
                 event.type = "mouse",
                 IF event.type = "mouse" THEN mouse_pos ELSE coord)

\* mutant: the timeout is tested after the lookup and the coordinate state
handle_input_iteration_TimeoutLast(T, S, any_input, coordinate_input, received, coord, event, mouse_pos) ==
    The({IF r.ret = HELP_KEYBINDINGS
         THEN Outcome("display_menu", HELP_KEYBINDINGS, r.T, received, coord)
         ELSE IF event.type = "timeout"
              THEN Outcome("break", TIMEOUT, r.T, FALSE, coord)
              ELSE handle_action(r.T, any_input, coordinate_input, received, coord,
                                 event, mouse_pos, r.ret) :
         r \in {input_to_action(T, S, event)}})

\* mutant: HELP_KEYBINDINGS is an action like the others
handle_input_iteration_HelpIsReturned(T, S, any_input, coordinate_input, received, coord, event, mouse_pos) ==
    IF event.type = "timeout"
    THEN Outcome("break", TIMEOUT, T, received, coord)
    ELSE The({handle_action(r.T, any_input, coordinate_input, received, coord,
                            event, mouse_pos, r.ret) :
              r \in {input_to_action(T, S, event)}})

\* lines 1059-1100, one iteration of the loop on the event the manager hands
\* out: how it ends ("break", "continue", or "display_menu" when the editor is
\* entered), the result so far, the table the lookup leaves and the
\* coordinate state of the session
handle_input_iteration(T, S, any_input, coordinate_input, received, coord, event, mouse_pos) ==
    IF event.type = "timeout"
    THEN Outcome("break", TIMEOUT, T, received, coord)
    ELSE The({IF r.ret = HELP_KEYBINDINGS
              THEN Outcome("display_menu", HELP_KEYBINDINGS, r.T, received, coord)
              ELSE handle_action(r.T, any_input, coordinate_input, received, coord,
                                 event, mouse_pos, r.ret) :
              r \in {input_to_action(T, S, event)}})

RegisterInput == Register(InputActionIds)

\* input_context::set_timeout( val ) and reset_timeout() on the session
SetTimeout ==
    /\ pc = "ready"
    /\ editors = <<>>
    /\ handling = <<>>
    /\ \E val \in SessionTimeouts \cup {0 - 1} :
          /\ timeout' = val
          /\ last' = [NoOp EXCEPT !.op = "set_timeout", !.ret = val]
    /\ UNCHANGED <<action_contexts, lhs_first, pc, sessionVars, ops, editors, diskVars,
                   resolved, keyVars, legacyVars, waitVars, next_action,
                   coordinate_input_received, coordinate>>

\* inp_mngr.set_timeout( val ) and reset_timeout() by a caller that is not the
\* session
ManagerSetTimeout ==
    /\ pc = "ready"
    /\ editors = <<>>
    /\ handling = <<>>
    /\ \E val \in ManagerTimeouts :
          /\ input_timeout' = val
          /\ last' = [NoOp EXCEPT !.op = "inp_mngr.set_timeout", !.ret = val]
    /\ UNCHANGED <<action_contexts, lhs_first, pc, sessionVars, ops, editors, diskVars,
                   resolved, fixedVars, handling>>

\* handle_input() and handle_input( timeout ) are entered: lines 1052-1057
HandleInput ==
    /\ pc = "ready"
    /\ editors = <<>>
    /\ handling = <<>>
    /\ \E timeout_arg \in {timeout} \cup SessionTimeouts \cup {0 - 1} :
          /\ handling' = <<Call(timeout_arg, input_timeout)>>
          /\ input_timeout' = handle_input_begin(Call(timeout_arg, input_timeout))
          /\ last' = [NoOp EXCEPT !.op = "handle_input_entered",
                                  !.call = <<Call(timeout_arg, input_timeout)>>]
    /\ next_action' = [next_action EXCEPT !.type = "error"]
    /\ UNCHANGED <<action_contexts, lhs_first, pc, sessionVars, ops, editors, diskVars,
                   resolved, keyVars, legacyVars, timeout, coordinate_input_received,
                   coordinate>>

\* inp_mngr.get_input_event: a timeout only when the manager has one to wait for
Handed(event) == event.type = "timeout" => input_timeout >= 0

\* one iteration of the loop of the call in progress, and what follows the
\* loop when the iteration leaves it.  last: the event, the call, the table
\* and the coordinate state before
Consume ==
    /\ handling # <<>>
    /\ editors = <<>>
    /\ \E event \in InputEvents, mouse_pos \in MousePositions :
       \E o \in {handle_input_iteration(action_contexts, This, registered_any_input,
                                        handling_coordinate_input,
                                        coordinate_input_received, coordinate,
                                        event, mouse_pos)} :
       \E seen \in {[NoOp EXCEPT !.e = event, !.call = <<handling[1]>>,
                                 !.seen = <<action_contexts>>,
                                 !.before = <<coordinate_input_received, coordinate>>,
                                 !.ret = o.result]} :
          /\ Handed(event)
          /\ next_action' = event
          /\ coordinate_input_received' = o.coordinate_input_received
          /\ coordinate' = o.coordinate
          /\ IF o.exit = "break"
             THEN /\ action_contexts' = o.T
                  /\ editors' = editors
                  /\ handling' = <<>>
                  /\ input_timeout' = handle_input_end(handling[1], o.result)
                  /\ last' = [seen EXCEPT !.op = "handle_input"]
             ELSE IF o.exit = "display_menu"
             THEN /\ ops < MaxEdits
                  /\ \E T \in {get_available_single_char_hotkeys(
                                   o.T, EditorContext(category))} :
                        /\ action_contexts' = T
                        /\ editors' = <<NewFrame(This, T, FALSE)>>
                  /\ handling' = handling
                  /\ input_timeout' = 0 - 1
                  /\ last' = [seen EXCEPT !.op = "handle_input_help"]
             ELSE /\ action_contexts' = o.T
                  /\ editors' = editors
                  /\ UNCHANGED waitVars
                  /\ last' = [seen EXCEPT !.op = "handle_input_next"]
    /\ UNCHANGED <<lhs_first, pc, sessionVars, ops, diskVars, resolved, keyVars,
                   legacyVars, timeout>>

InitInput == InitWith({default_context_id}, {"missing"})

NextInput ==
    \/ LoadStep("load_keybindings", {input_json}, FALSE, "load_vehicle")
    \/ LoadStep("load_vehicle", {"missing"}, FALSE, "load_user")
    \/ LoadUser
    \/ RegisterInput
    \/ SetTimeout
    \/ ManagerSetTimeout
    \/ HandleInput
    \/ Consume
    \/ EditorSetMode
    \/ EditorOther
    \/ EditorQuit
    \/ EditorHelp
    \/ EditorResume

SpecInput == InitInput /\ [][NextInput]_vars

(***************************************************************************)
(* The import of the legacy keymap: the rest of input_manager::init after  *)
(* the three loads.  load_keyboard_settings hands init the name of the     *)
(* file it read (empty when there is none), the mappings of characters to  *)
(* actions and the actions the file unbinds; an action is named by the     *)
(* identifier action_ident gives it.                                       *)
(***************************************************************************)
DEFAULTMODE == "DEFAULTMODE"

KeymapFile(keymap, unbound) ==
    [loaded_from |-> "keymap.txt", keymap |-> keymap, unbound |-> unbound]
\* the legacy files: none, one without mappings, and ones that map and unbind
\* actions that the shipped file does and does not have
KeymapFiles ==
    {NoKeymapFile,
     KeymapFile(EmptyMap, {}),
     KeymapFile(98 :> "UP" @@ 99 :> "QUIT", {}),
     KeymapFile(98 :> "QUIT" @@ 99 :> "QUIT", {"UP"}),
     KeymapFile(EmptyMap, {"QUIT"})}

\* input_event( a.first, input_event_t::keyboard_char )
CharEvent(ch) == [type |-> "keyboard_char", modifiers |-> {}, sequence |-> <<ch>>]

\* line 153: nothing to import
import_skipped(file) ==
    file.loaded_from = "" \/ (DOMAIN file.keymap = {} /\ file.unbound = {})

\* lines 161-178: one mapping of the keymap
import_mapping(T, touched, ch, action_id) ==
    IF action_id \in DOMAIN TouchContext(T, default_context_id)[default_context_id]
    THEN add_input_for_action(TouchContext(T, default_context_id), action_id,
                              default_context_id, CharEvent(ch))
    ELSE add_input_for_action(
             IF action_id \notin touched
             THEN Put(TouchContext(T, default_context_id), action_id, EmptyMap)
             ELSE TouchContext(T, default_context_id),
             action_id, DEFAULTMODE, CharEvent(ch))

\* lines 160-179: the mappings from the least character on
RECURSIVE import_mappings(_, _, _)
import_mappings(T, touched, keymap) ==
    IF DOMAIN keymap = {} THEN T
    ELSE The({import_mappings(
                  import_mapping(T, touched, ch, keymap[ch]),
                  IF keymap[ch] \in DOMAIN TouchContext(T, default_context_id)[default_context_id]
                  THEN touched ELSE touched \cup {keymap[ch]},
                  [c \in DOMAIN keymap \ {ch} |-> keymap[c]]) :
              ch \in {c \in DOMAIN keymap : \A d \in DOMAIN keymap : c <= d}})

\* lines 181-184: the actions that are explicitly not mapped
RECURSIVE import_unbound(_, _)
import_unbound(T, unbound) ==
    IF unbound = {} THEN T
    ELSE The({import_unbound(
                  SetEntry(T, DEFAULTMODE, action_id,
                           [AttributesOf(T, DEFAULTMODE, action_id) EXCEPT
                               !.input_events = <<>>]),
                  unbound \ {action_id}) :
              action_id \in {CHOOSE a \in unbound : TRUE}})

\* lines 158-184: the table after the import
import_keymap(T, file) ==
    import_unbound(import_mappings(TouchContext(T, DEFAULTMODE), {}, file.keymap),
                   file.unbound)

\* mutant: the legacy file is removed whether or not the save threw
init_import_RemovesUnsaved(T, file, save_throws) ==
    IF import_skipped(file)
    THEN [T |-> T, saved |-> FALSE, removed |-> FALSE]
    ELSE [T |-> import_keymap(T, file), saved |-> ~save_throws, removed |-> TRUE]

\* lines 153-197: the table init leaves, whether the user keybindings file was
\* written from it and whether the legacy file was removed
init_import(T, file, save_throws) ==
    IF import_skipped(file)
    THEN [T |-> T, saved |-> FALSE, removed |-> FALSE]
    ELSE [T |-> import_keymap(T, file), saved |-> ~save_throws, removed |-> ~save_throws]

\* the rest of init after the loads.  last: the legacy file, the user
\* keybindings file and the table before
ImportKeymap ==
    /\ pc = "import_keymap"
    /\ \E save_throws \in BOOLEAN :
       \E r \in {init_import(action_contexts, keymap_file, save_throws)} :
          /\ save_throws => ~import_skipped(keymap_file)
          /\ action_contexts' = r.T
          /\ user_keybindings' = IF r.saved THEN save(r.T) ELSE user_keybindings
          /\ saved_from' = IF r.saved THEN <<r.T>> ELSE saved_from
          /\ keymap_file' = IF r.removed THEN NoKeymapFile ELSE keymap_file
          /\ last' = [NoOp EXCEPT !.op = IF import_skipped(keymap_file) THEN "import_skipped"
                                         ELSE IF save_throws THEN "import_save_failed"
                                         ELSE "imported",
                                  !.before = <<keymap_file, user_keybindings>>,
                                  !.seen = <<action_contexts>>]
    /\ pc' = "ready"
    /\ UNCHANGED <<lhs_first, sessionVars, ops, editors, resolved, keyVars, inputVars,
                   waitVars>>

\* shipped keybindings of the context the legacy keymap is imported into
defaultmode_json == <<Record("QUIT", DEFAULTMODE, FALSE, "", <<BindA>>)>>

InitImport == InitFrom({default_context_id}, UserFiles, KeymapFiles, Len(keycode_pairs))

NextImport ==
    \/ LoadStep("load_keybindings", {keybindings_up_json}, FALSE, "load_vehicle")
    \/ LoadStep("load_vehicle", {"missing", defaultmode_json}, FALSE, "load_user")
    \/ LoadStep("load_user", {user_keybindings}, TRUE, "import_keymap")
    \/ ImportKeymap
    \/ Restart

SpecImport == InitImport /\ [][NextImport]_vars

(***************************************************************************)
(* The claims.                                                             *)
(***************************************************************************)
Ready == pc = "ready"
EventsOf(T, c, a) == IF HasEntry(T, c, a) THEN T[c][a].input_events ELSE <<>>
\* the event list that context c gives action a: the local entry when there is
\* one, else the global entry, else nothing
ResolvedEvents(T, c, a) ==
    IF c # default_context_id /\ HasEntry(T, c, a) THEN T[c][a].input_events
    ELSE EventsOf(T, default_context_id, a)
AllEvents == Events \cup {KeyCodeA}

\* C1: resolve(a, c) returns the local entry of a in c with is_local = TRUE when
\* c is not "default" and the table has a context c that holds a; in every other
\* case it returns the entry of a in "default" with is_local = FALSE.
C1_ResolveLocalElseGlobal ==
    Ready =>
      /\ \A a \in ActionIds, c \in ContextIds :
            LET T == action_contexts
                r == get_action_attributes(T, a, c)
            IN IF c # default_context_id /\ c \in DOMAIN T /\ a \in DOMAIN T[c]
               THEN r.is_local /\ r.attrs = T[c][a] /\ r.T = T
               ELSE /\ ~r.is_local
                    /\ HasEntry(r.T, default_context_id, a)
                    /\ r.attrs = r.T[default_context_id][a]
                    /\ HasEntry(T, default_context_id, a)
                          => r.attrs = T[default_context_id][a]
      /\ last.op = "resolve" =>
            IF last.c # default_context_id /\ HasEntry(action_contexts, last.c, last.a)
            THEN last.is_local /\ last.ret = action_contexts[last.c][last.a]
            ELSE ~last.is_local /\ last.ret = action_contexts[default_context_id][last.a]

\* C1 witness: a resolve returned a local override while a global entry exists too
C1_Witness ==
    /\ last.op = "resolve" /\ last.c = "vehicle" /\ last.is_local
    /\ HasEntry(action_contexts, default_context_id, last.a)
    /\ action_contexts[default_context_id][last.a] # last.ret

\* C2: resolving an action id that has no entry in the context and none in the
\* global context creates a global entry with an empty event list and a
\* non-empty synthesized name; resolving it a second time returns that same
\* entry and changes nothing further in the table.
C2_MaterializeNamedOnce ==
    Ready =>
      \A a \in ActionIds, c \in ContextIds :
        LET T == action_contexts
            r == get_action_attributes(T, a, c)
            r2 == get_action_attributes(r.T, a, c)
        IN (~HasEntry(T, c, a) /\ ~HasEntry(T, default_context_id, a)) =>
             /\ HasEntry(r.T, default_context_id, a)
             /\ r.T[default_context_id][a].input_events = <<>>
             /\ r.T[default_context_id][a].name # ""
             /\ r2.attrs = r.attrs
             /\ r2.T = r.T

\* C3: add(a, c, e) appends e at the end of the event list of (c, a) when no
\* equal event is in it and leaves the whole table unchanged when one is; add
\* twice gives the same table as add once.
C3_AddAppendsOnce ==
    Ready =>
      /\ \A a \in ActionIds, c \in ContextIds, e \in AllEvents :
            LET T == action_contexts
                old == EventsOf(T, c, a)
                T1 == add_input_for_action(T, a, c, e)
            IN /\ Contains(old, e) => T1 = T
               /\ ~Contains(old, e) =>
                     HasEntry(T1, c, a) /\ T1[c][a].input_events = Append(old, e)
               /\ add_input_for_action(T1, a, c, e) = T1
      /\ last.op = "add" =>
            LET old == IF last.before = <<>> THEN <<>> ELSE last.before[1].input_events
                new == EventsOf(action_contexts, last.c, last.a)
            IN new = IF Contains(old, last.e) THEN old ELSE Append(old, last.e)

\* C3 witness: an add appended its event behind the events the entry held
C3_Witness ==
    /\ last.op = "add" /\ last.before # <<>>
    /\ last.before[1].input_events # <<>>
    /\ ~Contains(last.before[1].input_events, last.e)
    /\ action_contexts[last.c][last.a].input_events =
          Append(last.before[1].input_events, last.e)

\* C4: remove(a, c) on a user-created entry of a non-default context c deletes
\* the entry, and a resolve(a, c) afterwards returns the global entry of a with
\* is_local = FALSE.
C4_RemoveUserCreatedFallsBack ==
    Ready =>
      /\ \A a \in ActionIds, c \in ContextIds \ {default_context_id} :
            LET T == action_contexts
                T1 == remove_input_for_action(T, a, c)
                r == get_action_attributes(T1, a, c)
            IN (HasEntry(T, c, a) /\ T[c][a].is_user_created) =>
                 /\ ~HasEntry(T1, c, a)
                 /\ \A c2 \in DOMAIN T, a2 \in ActionIds :
                       <<c2, a2>> # <<c, a>> => EntryOf(T1, c2, a2) = EntryOf(T, c2, a2)
                 /\ ~r.is_local
                 /\ r.attrs = r.T[default_context_id][a]
                 /\ HasEntry(T, default_context_id, a)
                       => r.attrs = T[default_context_id][a]
      /\ (last.op = "remove" /\ last.before # <<>> /\ last.c # default_context_id) =>
            (last.before[1].is_user_created
               => ~HasEntry(action_contexts, last.c, last.a))

\* C4 witness: a remove deleted a user-created local entry that held events
C4_Witness ==
    /\ last.op = "remove" /\ last.c = "vehicle" /\ last.before # <<>>
    /\ last.before[1].is_user_created
    /\ last.before[1].input_events # <<>>
    /\ ~HasEntry(action_contexts, last.c, last.a)
    /\ HasEntry(action_contexts, default_context_id, last.a)

\* C5: remove(a, c) on an entry that is not user-created clears its event list
\* and keeps the entry when the list is non-empty (resolve(a, c) still returns
\* that entry, now empty) and deletes the entry when the list is already empty;
\* two removes in a row on a non-empty shipped entry unbind it, then delete it.
C5_RemoveShippedUnbindsThenDeletes ==
    Ready =>
      /\ \A a \in ActionIds, c \in ContextIds :
            LET T == action_contexts
                T1 == remove_input_for_action(T, a, c)
                T2 == remove_input_for_action(T1, a, c)
                r == get_action_attributes(T1, a, c)
            IN (HasEntry(T, c, a) /\ ~T[c][a].is_user_created) =>
                 IF T[c][a].input_events # <<>>
                 THEN /\ HasEntry(T1, c, a)
                      /\ T1[c][a] = [T[c][a] EXCEPT !.input_events = <<>>]
                      /\ r.attrs = T1[c][a]
                      /\ r.is_local = (c # default_context_id)
                      /\ r.T = T1
                      /\ ~HasEntry(T2, c, a)
                 ELSE ~HasEntry(T1, c, a)
      /\ (last.op = "remove" /\ last.before # <<>>) =>
            (~last.before[1].is_user_created =>
               IF last.before[1].input_events # <<>>
               THEN /\ HasEntry(action_contexts, last.c, last.a)
                    /\ action_contexts[last.c][last.a].input_events = <<>>
               ELSE ~HasEntry(action_contexts, last.c, last.a))

\* C5 witness: a remove unbound a shipped local entry, which is still there, empty
C5_Witness ==
    /\ last.op = "remove" /\ last.c = "vehicle" /\ last.before # <<>>
    /\ ~last.before[1].is_user_created
    /\ last.before[1].input_events # <<>>
    /\ HasEntry(action_contexts, last.c, last.a)
    /\ action_contexts[last.c][last.a].input_events = <<>>

\* C6: lookup(event) returns the earliest-registered action of the session whose
\* resolved bindings in the session's context contain the event, and "ERROR"
\* when no registered action has it.
C6_LookupFirstRegistered ==
    Ready =>
      /\ \A e \in AllEvents :
            LET T == action_contexts
                r == input_to_action(T, This, e)
                matches == {i \in 1..Len(registered_actions) :
                              Contains(ResolvedEvents(T, category, registered_actions[i]), e)}
            IN IF matches = {}
               THEN r.ret = CATA_ERROR
               ELSE \E i \in matches :
                      /\ \A j \in matches : i <= j
                      /\ r.ret = registered_actions[i]
      /\ last.op = "lookup" =>
            LET matches == {i \in 1..Len(registered_actions) :
                              Contains(ResolvedEvents(action_contexts, category,
                                                      registered_actions[i]), last.e)}
            IN IF matches = {}
               THEN last.ret = CATA_ERROR
               ELSE \E i \in matches :
                      /\ \A j \in matches : i <= j
                      /\ last.ret = registered_actions[i]

\* C6 witness: two different registered actions are bound to the probe and the
\* lookup returned the one registered first
C6_Witness ==
    /\ last.op = "lookup"
    /\ Len(registered_actions) = 2
    /\ registered_actions[1] # registered_actions[2]
    /\ Contains(ResolvedEvents(action_contexts, category, registered_actions[1]), last.e)
    /\ Contains(ResolvedEvents(action_contexts, category, registered_actions[2]), last.e)
    /\ last.ret = registered_actions[1]

Registered(a) == \E i \in 1..Len(registered_actions) : registered_actions[i] = a

\* C7: after clear_conflicts(e) no registered action of the session has e in its
\* global entry or in its entry of the session's context, so uses(a, e) is false
\* for each; the other events of those entries keep their relative order, and
\* the event lists of unregistered actions and of other contexts are unchanged.
C7_ClearConflictsStripsEvent ==
    Ready =>
      \A e \in AllEvents :
        LET T == action_contexts
            T1 == clear_conflicting_keybindings(T, This, e)
        IN /\ \A c \in ContextIds, a \in ActionIds :
                /\ HasEntry(T1, c, a) = HasEntry(T, c, a)
                /\ HasEntry(T, c, a) =>
                     /\ T1[c][a].name = T[c][a].name
                     /\ T1[c][a].is_user_created = T[c][a].is_user_created
                     /\ T1[c][a].input_events =
                          IF Registered(a) /\ c \in {default_context_id, category}
                          THEN SelectSeq(T[c][a].input_events, LAMBDA x : x # e)
                          ELSE T[c][a].input_events
           /\ \A a \in ActionIds :
                Registered(a) =>
                  /\ ~Contains(EventsOf(T1, default_context_id, a), e)
                  /\ ~Contains(EventsOf(T1, category, a), e)
                  /\ ~action_uses_input(T1, This, a, e).ret

\* C7 witness: a clear_conflicts ran in a session of a non-default context with a
\* registered action that still holds two other events, while an unregistered
\* action keeps the cleared event
C7_Witness ==
    /\ last.op = "clear_conflicts"
    /\ \E a \in ActionIds, c \in {default_context_id, category} :
          /\ Registered(a)
          /\ Len(EventsOf(action_contexts, c, a)) >= 2
    /\ \E a \in ActionIds, c \in ContextIds :
          /\ ~Registered(a)
          /\ Contains(EventsOf(action_contexts, c, a), last.e)

\* the name get_action_name shows for a: the override of the session, else the
\* name of its entry in the session's context, else that of its global entry,
\* else the id
DisplayName(T, S, a) ==
    LET local == IF S.category # default_context_id /\ HasEntry(T, S.category, a)
                 THEN T[S.category][a].name
                 ELSE IF HasEntry(T, default_context_id, a)
                      THEN T[default_context_id][a].name ELSE ""
        global == IF HasEntry(T, default_context_id, a)
                  THEN T[default_context_id][a].name ELSE ""
    IN IF a \in DOMAIN S.action_name_overrides THEN S.action_name_overrides[a]
       ELSE IF local # "" THEN local
       ELSE IF global # "" THEN global
       ELSE a

\* the registrations of S, in order, of an action other than edited whose
\* resolved binding in the context of S contains e
ConflictingRegistrations(T, S, edited, e) ==
    SelectSeq([i \in 1..Len(S.registered_actions) |-> i],
              LAMBDA i : /\ S.registered_actions[i] # edited
                         /\ Contains(ResolvedEvents(T, S.category, S.registered_actions[i]), e))

C9_DiscardRestoresSnapshot ==
    last.op = "editor_discarded" => action_contexts = last.seen[1]

\* C9 witness: a session that changed bindings ended with a discard, and the
\* table it ended on is not the table it left
C9_Witness ==
    /\ last.op = "editor_discarded"
    /\ last.changed
    /\ last.before[1] # action_contexts

\* C10: when the save at the end of an editor session fails, the table is the one
\* the session copied before the edits.
C10_SaveFailureRestoresSnapshot ==
    last.op = "editor_save_failed" => action_contexts = last.seen[1]

(***************************************************************************)
(* The claims on save.  saved_from holds the table that the file on disk   *)
(* was written from.                                                       *)
(***************************************************************************)
\* init has rebuilt the table from the shipped files and a file that save wrote
Rebuilt == pc = "ready" /\ last.op = "load_user" /\ saved_from # <<>>
Occurrences(seq, x) == Cardinality({i \in 1..Len(seq) : seq[i] = x})
SameUpToOrder(s, t) ==
    /\ Len(s) = Len(t)
    /\ \A i \in 1..Len(s) : Occurrences(s, s[i]) = Occurrences(t, s[i])
UserCreatedEmpty(T, c, a) ==
    HasEntry(T, c, a) /\ T[c][a].is_user_created /\ T[c][a].input_events = <<>>

\* C11: when a table (reached by loads, add, remove and clear_conflicts) is saved
\* and the table is then rebuilt from the shipped files and the saved file, the
\* rebuilt table has no context the saved one had not, holds every entry of the
\* saved table that is not user-created and empty, with the same events up to
\* order, and holds no other entry.
C11_SaveThenRebuildIsEquivalent ==
    Rebuilt =>
      /\ DOMAIN action_contexts \subseteq DOMAIN saved_from[1]
      /\ \A c \in ContextIds, a \in ActionIds :
            IF HasEntry(saved_from[1], c, a) /\ ~UserCreatedEmpty(saved_from[1], c, a)
            THEN /\ HasEntry(action_contexts, c, a)
                 /\ SameUpToOrder(action_contexts[c][a].input_events,
                                  saved_from[1][c][a].input_events)
            ELSE ~HasEntry(action_contexts, c, a)

C20_ResolvedActionsAreSaved ==
    last.op = "save" =>
      \A a \in resolved : \E i \in 1..Len(user_keybindings) : user_keybindings[i].id = a

(***************************************************************************)
(* The claims on load.  After a load step, last.op names the step,         *)
(* last.ret is the file it was given and last.seen holds the table it      *)
(* began on.                                                               *)
(***************************************************************************)
LoadOps == {"load_keybindings", "load_vehicle", "load_user"}
Loaded == last.op \in LoadOps /\ last.ret # "missing"
FromUser == last.op = "load_user"
\* the load until the i-th object of the file
Upto(i) == load_records(last.seen[1], SubSeq(last.ret, 1, i - 1), 1, FromUser)
\* the objects of the file that the load got to
ReadObjects == {i \in 1..Len(last.ret) : ~Upto(i).thrown}
\* the table when the i-th object has been dealt with
After(i) == IF (i + 1) \in ReadObjects THEN Upto(i + 1).T ELSE action_contexts
\* the events that the bindings of an object resolve to
EventsIn(rec) == read_bindings(rec.bindings, 1, <<>>)
KeyboardCodes(events) == SelectSeq(events, LAMBDA evt : evt.type = "keyboard_code")
\* the keybinding objects read whose bindings all resolve
Resolving == {i \in ReadObjects : last.ret[i].type = "keybinding" /\ ~EventsIn(last.ret[i]).thrown}

\* C13 as claimed: a user-preference record whose resolved event list is empty is
\* discarded (no entry is created or changed) unless its context is "default" or
\* the context already holds an entry for the action id; in those two cases the
\* entry's event list becomes empty.  Records of shipped files are always applied.
C13_EmptyUserRecordUnbindsOrIsDiscarded ==
    Loaded =>
      \A i \in Resolving :
        LET rec == last.ret[i]
            T0 == Upto(i).T
            T1 == After(i)
        IN IF FromUser /\ EventsIn(rec).events = <<>>
           THEN IF rec.category = default_context_id \/ HasEntry(T0, rec.category, rec.id)
                THEN /\ HasEntry(T1, rec.category, rec.id)
                     /\ T1[rec.category][rec.id].input_events = <<>>
                ELSE \A c \in ContextIds, a \in ActionIds : EntryOf(T1, c, a) = EntryOf(T0, c, a)
           ELSE ~FromUser =>
                   /\ HasEntry(T1, rec.category, rec.id)
                   /\ T1[rec.category][rec.id].input_events = EventsIn(rec).events

\* C13 as amended: a user-preference record whose resolved event list is empty is
\* discarded (no entry is created or changed) unless its context is "default" or
\* the context already holds an entry for the action id; in those two cases the
\* record is applied: the entry's event list becomes empty when the record's
\* version is not 0, and becomes the keyboard-code events the entry held when it
\* is 0.  Records of shipped files are always applied.
C13_EmptyUserRecordAppliedOrDiscarded ==
    Loaded =>
      \A i \in Resolving :
        LET rec == last.ret[i]
            T0 == Upto(i).T
            T1 == After(i)
        IN IF FromUser /\ EventsIn(rec).events = <<>>
           THEN IF rec.category = default_context_id \/ HasEntry(T0, rec.category, rec.id)
                THEN /\ HasEntry(T1, rec.category, rec.id)
                     /\ T1[rec.category][rec.id].input_events =
                           IF rec.version = 0
                           THEN KeyboardCodes(EventsOf(T0, rec.category, rec.id))
                           ELSE <<>>
                ELSE \A c \in ContextIds, a \in ActionIds : EntryOf(T1, c, a) = EntryOf(T0, c, a)
           ELSE ~FromUser =>
                   /\ HasEntry(T1, rec.category, rec.id)
                   /\ T1[rec.category][rec.id].input_events = EventsIn(rec).events

\* C13 witness: the user file held one record of version 0 without bindings for an
\* entry that held a keyboard-code event and another event; the entry is left
\* with the keyboard-code event alone
C13_Witness ==
    /\ Loaded /\ FromUser /\ pc = "ready"
    /\ Len(last.ret) = 1
    /\ last.ret[1].version = 0
    /\ last.ret[1].bindings = <<>>
    /\ Len(EventsOf(last.seen[1], last.ret[1].category, last.ret[1].id)) = 2
    /\ EventsOf(action_contexts, last.ret[1].category, last.ret[1].id) = <<KeyCodeA>>

\* the records that load applies
Applied(i) ==
    \/ ~FromUser
    \/ EventsIn(last.ret[i]).events # <<>>
    \/ last.ret[i].category = default_context_id
    \/ HasEntry(Upto(i).T, last.ret[i].category, last.ret[i].id)

\* C14: when load applies a user-preference record of version 0, the event list of
\* the entry becomes the record's events followed by every keyboard-code event
\* that the entry of that action id held before; for a user-preference record of
\* version 1 or later it becomes exactly the record's events.
C14_VersionZeroCarriesKeyboardCodes ==
    (Loaded /\ FromUser) =>
      \A i \in Resolving :
        LET rec == last.ret[i]
            T0 == Upto(i).T
            T1 == After(i)
        IN Applied(i) =>
             /\ HasEntry(T1, rec.category, rec.id)
             /\ rec.version = 0 =>
                  T1[rec.category][rec.id].input_events =
                     EventsIn(rec).events \o KeyboardCodes(EventsOf(T0, rec.category, rec.id))
             /\ rec.version >= 1 =>
                  T1[rec.category][rec.id].input_events = EventsIn(rec).events

\* C14 witness: a version-0 record with one keyboard-char event was applied to an
\* entry whose list began with a keyboard-code event, and the entry holds both,
\* the record's event first
C14_Witness ==
    /\ Loaded /\ FromUser /\ pc = "ready"
    /\ Len(last.ret) = 1
    /\ last.ret[1].version = 0
    /\ EventsIn(last.ret[1]).events = <<KeyCtrlA>>
    /\ EventsOf(last.seen[1], last.ret[1].category, last.ret[1].id) = <<KeyCodeA, KeyA>>
    /\ EventsOf(action_contexts, last.ret[1].category, last.ret[1].id) = <<KeyCtrlA, KeyCodeA>>

\* the keybinding objects of the file for action a of context c
RecordsFor(c, a) ==
    {i \in 1..Len(last.ret) :
        last.ret[i].type = "keybinding" /\ last.ret[i].category = c /\ last.ret[i].id = a}
Latest(set) == CHOOSE i \in set : \A j \in set : j <= i

\* C15: init loads the built-in defaults, the secondary defaults and the user
\* preferences in that order, on the table the layer before left; when a layer is
\* loaded whole, an action id that the table binds in a context and that a
\* current-version record of the layer binds in the same context has the events
\* of the layer's (last) record for it, and the entries for which the layer has
\* no record are as the earlier layers left them.
C15_LaterLayerWins ==
    /\ pc = "load_keybindings" => (last.op = "none" /\ action_contexts = EmptyMap)
    /\ pc = "load_vehicle" => last.op = "load_keybindings"
    /\ pc = "load_user" => last.op = "load_vehicle"
    /\ pc = "ready" => last.op = "load_user"
    /\ last.op = "load_keybindings" => last.seen[1] = EmptyMap
    /\ (Loaded /\ pc # "fatal") =>
         \A c \in ContextIds, a \in ActionIds :
            IF RecordsFor(c, a) = {}
            THEN EntryOf(action_contexts, c, a) = EntryOf(last.seen[1], c, a)
            ELSE LET rec == last.ret[Latest(RecordsFor(c, a))]
                 IN (/\ HasEntry(last.seen[1], c, a)
                     /\ FromUser => rec.version = current_keybinding_version) =>
                       EventsOf(action_contexts, c, a) = EventsIn(rec).events

\* C15 witness: init is over; the user file's record for UP replaced the events
\* the shipped layers gave UP, and QUIT, which only a shipped layer binds, keeps
\* its events
C15_Witness ==
    /\ pc = "ready" /\ Loaded
    /\ RecordsFor(default_context_id, "UP") # {}
    /\ RecordsFor(default_context_id, "QUIT") = {}
    /\ last.ret[Latest(RecordsFor(default_context_id, "UP"))].version = current_keybinding_version
    /\ EventsOf(last.seen[1], default_context_id, "UP") = <<KeyCodeA, KeyA>>
    /\ EventsOf(action_contexts, default_context_id, "UP") = <<KeyCtrlA>>
    /\ EventsOf(action_contexts, default_context_id, "QUIT") = <<KeyCtrlA>>

\* C16: every (context, action id) pair of the table before a load call is in the
\* table after it, whether the load returned or threw, and so is every context.
C16_LoadNeverDeletes ==
    last.op \in LoadOps =>
      /\ DOMAIN last.seen[1] \subseteq DOMAIN action_contexts
      /\ \A c \in DOMAIN last.seen[1] : DOMAIN last.seen[1][c] \subseteq DOMAIN action_contexts[c]

\* C16 witness: a load of the user file threw after it had overwritten the events
\* of an entry, and went on a table that held an entry it had no record for
C16_Witness ==
    /\ FromUser /\ pc = "fatal"
    /\ EventsOf(last.seen[1], default_context_id, "UP") # <<>>
    /\ EventsOf(action_contexts, default_context_id, "UP") # <<>>
    /\ EventsOf(action_contexts, default_context_id, "UP") #
          EventsOf(last.seen[1], default_context_id, "UP")
    /\ HasEntry(last.seen[1], "vehicle", "UP")

\* C17: the load of the first (built-in default) file throws when the file is
\* missing, and the load of a later file that is missing returns with the table
\* unchanged, whatever the earlier files held.
C17_OnlyFirstFileIsMandatory ==
    (last.op \in LoadOps /\ last.ret = "missing") =>
      IF last.op = "load_keybindings"
      THEN pc = "fatal"
      ELSE pc # "fatal" /\ action_contexts = last.seen[1]

\* the bindings that load must refuse
BadBinding(keybinding) ==
    \/ keybinding.input_method \notin
          {"keyboard_char", "keyboard_code", "keyboard", "keyboard_any", "gamepad", "mouse"}
    \/ \E m \in 1..Len(keybinding.mod) : keybinding.mod[m] \notin {"ctrl", "alt", "shift"}
HoldsBadBinding(rec) ==
    rec.type = "keybinding" /\ \E k \in 1..Len(rec.bindings) : BadBinding(rec.bindings[k])

\* C18: when a keybinding record of the file holds a binding whose input_method
\* is not one of the six known or whose mod list holds a name other than ctrl,
\* alt, shift, the load of that file throws (init fails), and neither the events
\* of that record nor any record behind it are applied: every event list is as
\* the records before it left it.
C18_BadBindingAbortsFile ==
    Loaded =>
      \A i \in ReadObjects :
        HoldsBadBinding(last.ret[i]) =>
          /\ pc = "fatal"
          /\ \A c \in ContextIds, a \in ActionIds :
                EventsOf(action_contexts, c, a) = EventsOf(Upto(i).T, c, a)

\* C18 witness: the second record of the vehicle file held a modifier that is not
\* known; init failed, the first record is applied and the second is not
C18_Witness ==
    /\ last.op = "load_vehicle" /\ Loaded /\ pc = "fatal"
    /\ Len(last.ret) = 2
    /\ HoldsBadBinding(last.ret[2]) /\ ~HoldsBadBinding(last.ret[1])
    /\ EventsOf(action_contexts, "vehicle", "QUIT") = <<KeyA>>
    /\ EventsOf(action_contexts, "vehicle", "UP") = <<>>

\* the events a binding stands for
TypesOf(input_method) ==
    IF input_method = "keyboard_any" THEN <<"keyboard_char", "keyboard_code">>
    ELSE IF input_method = "keyboard" THEN <<"keyboard_char">>
    ELSE <<input_method>>
EventsOfBinding(keybinding) ==
    [t \in 1..Len(TypesOf(keybinding.input_method)) |->
        [type |-> TypesOf(keybinding.input_method)[t],
         modifiers |-> {keybinding.mod[m] : m \in 1..Len(keybinding.mod)},
         sequence |-> [k \in 1..Len(keybinding.key) |->
                          get_keycode(TypesOf(keybinding.input_method)[t], keybinding.key[k])]]]
RECURSIVE EventsOfBindings(_, _)
EventsOfBindings(bindings, k) ==
    IF k > Len(bindings) THEN <<>>
    ELSE EventsOfBinding(bindings[k]) \o EventsOfBindings(bindings, k + 1)

\* C19: the event list that load gives an entry from a record (of a version other
\* than 0) holds, binding by binding in the order of the record, two adjacent
\* events for a binding of input_method keyboard_any, the first of type
\* keyboard-char and the second of type keyboard-code, with the binding's
\* modifier set and its key names each resolved in the event's own family, and
\* one event for a binding of any other input_method, of type keyboard-char for
\* keyboard as for keyboard_char.
C19_KeyboardAnyYieldsTwins ==
    Loaded =>
      \A i \in Resolving :
        LET rec == last.ret[i]
        IN (Applied(i) /\ (FromUser => rec.version # 0)) =>
             /\ EventsOf(After(i), rec.category, rec.id) = EventsOfBindings(rec.bindings, 1)
             /\ Len(EventsOf(After(i), rec.category, rec.id)) =
                   Len(rec.bindings) +
                   Cardinality({k \in 1..Len(rec.bindings) :
                                   rec.bindings[k].input_method = "keyboard_any"})

\* C19 witness: a record with a keyboard_any binding of two keys under shift,
\* followed by another binding, was loaded: the entry holds the keyboard-char
\* twin, the keyboard-code twin, whose second key has no name among the keyboard
\* codes, and then the event of the other binding
C19_Witness ==
    /\ last.op = "load_keybindings" /\ Loaded /\ pc = "load_vehicle"
    /\ EventsOf(action_contexts, default_context_id, "UP") =
          <<[type |-> "keyboard_char", modifiers |-> {"shift"}, sequence |-> <<97, KEY_BTAB>>],
            [type |-> "keyboard_code", modifiers |-> {"shift"}, sequence |-> <<97, 0>>],
            KeyCtrlA>>


(***************************************************************************)
(* The claims about handle_input.                                          *)
(***************************************************************************)
\* an iteration of the loop of handle_input has consumed the event last.e
Consumed == last.op \in {"handle_input", "handle_input_next", "handle_input_help"}
\* the handle_input call of the session has returned
EditorExits == {"editor_closed", "editor_discarded", "editor_saved", "editor_save_failed"}
Returned ==
    \/ last.op = "handle_input"
    \/ last.op \in EditorExits /\ last.call # <<>>
\* event e is bound to no registered action of the session
NoMatch(e) ==
    \A i \in 1..Len(registered_actions) :
       ~Contains(ResolvedEvents(action_contexts, category, registered_actions[i]), e)
\* the first registered action of the session that event e is bound to is a
FirstMatch(e, a) ==
    \E i \in 1..Len(registered_actions) :
       /\ registered_actions[i] = a
       /\ Contains(ResolvedEvents(action_contexts, category, a), e)
       /\ \A j \in 1..(i - 1) :
             ~Contains(ResolvedEvents(action_contexts, category, registered_actions[j]), e)

\* C21: in a session that did not register COORDINATE, a mouse event bound to
\* no registered action is dropped: the call has not returned and no editor was
\* entered, the iteration went on to the next event, ANY_INPUT is not its
\* result, and the coordinate-received flag and the coordinate are those of
\* before the event.
C21_UnmatchedMouseIsDropped ==
    (Consumed /\ last.e.type = "mouse" /\ ~Registered(COORDINATE) /\ NoMatch(last.e))
    => /\ last.op = "handle_input_next"
       /\ handling # <<>>
       /\ editors = <<>>
       /\ last.ret # ANY_INPUT
       /\ <<coordinate_input_received, coordinate>> = last.before

\* C21 witness: the catch-all is registered, an earlier mouse event set the
\* flag and the coordinate, and an unbound mouse event at another position
\* was consumed
C21_Witness ==
    /\ last.op = "handle_input_next"
    /\ last.e = MouseLeft
    /\ Registered(ANY_INPUT)
    /\ ~Registered(COORDINATE)
    /\ coordinate_input_received
    /\ coordinate = 1

\* C22: a consumed event that is neither a timeout nor a mouse event and is
\* bound to no registered action makes the call return ANY_INPUT when the
\* session registered the catch-all, and otherwise leaves the call waiting
\* for the next event; and every return of the call is on a timeout, on an
\* event bound to the registered action returned, or of the catch-all by a
\* session that registered it.
C22_CatchAllOrNextEvent ==
    /\ (Consumed /\ last.e.type \notin {"timeout", "mouse"} /\ NoMatch(last.e))
       => IF Registered(ANY_INPUT)
          THEN last.op = "handle_input" /\ last.ret = ANY_INPUT /\ handling = <<>>
          ELSE last.op = "handle_input_next" /\ handling # <<>>
    /\ last.op = "handle_input"
       => \/ last.e.type = "timeout" /\ last.ret = TIMEOUT
          \/ last.e.type # "timeout" /\ FirstMatch(last.e, last.ret)
          \/ last.e.type # "timeout" /\ last.ret = ANY_INPUT /\ Registered(ANY_INPUT)
                /\ NoMatch(last.e)
    /\ (last.op \in EditorExits /\ last.call # <<>> /\ handling = <<>>)
       => last.ret = HELP_KEYBINDINGS /\ Registered(HELP_KEYBINDINGS)

\* C22 witness: a session that registered an action but not the catch-all
\* consumed an unbound key and waits for the next event
C22_Witness ==
    /\ last.op = "handle_input_next"
    /\ last.e = KeyCodeA
    /\ Registered("UP")
    /\ ~Registered(ANY_INPUT)
    /\ handling # <<>>

\* C23: on a timeout event the call returns TIMEOUT at once: the table is the
\* one before the event (a lookup creates the entries it misses), no editor
\* is entered, and the coordinate-received flag is the one of before.
C23_TimeoutReturnsAtOnce ==
    (Consumed /\ last.e.type = "timeout")
    => /\ last.op = "handle_input"
       /\ last.ret = TIMEOUT
       /\ handling = <<>>
       /\ editors = <<>>
       /\ action_contexts = last.seen[1]
       /\ coordinate_input_received = last.before[1]

\* C23 witness: the call timed out while the flag was set and while a lookup
\* would have created the entry of a registered action
C23_Witness ==
    /\ last.op = "handle_input"
    /\ last.e = TimeoutEvent
    /\ coordinate_input_received
    /\ Registered(ANY_INPUT)
    /\ ~HasEntry(action_contexts, default_context_id, ANY_INPUT)

\* C24: an event whose first registered action is HELP_KEYBINDINGS enters the
\* editor on the session and leaves the call in progress; the call is in
\* progress as long as the editor is; and HELP_KEYBINDINGS is returned only by
\* the return of the editor, never by the exit of the loop that returns an
\* action.
C24_HelpRunsEditorFirst ==
    /\ (Consumed /\ last.e.type # "timeout" /\ FirstMatch(last.e, HELP_KEYBINDINGS))
       => /\ last.op = "handle_input_help"
          /\ Len(editors) = 1
          /\ editors[1].S = This
          /\ handling # <<>>
    /\ editors # <<>> => Len(handling) = Len(editors)
    /\ last.op = "handle_input" => last.ret # HELP_KEYBINDINGS
    /\ (Returned /\ last.ret = HELP_KEYBINDINGS) => last.op \in EditorExits

\* C24 witness: the call of the session returned from the editor it entered
\* on the key bound to HELP_KEYBINDINGS
C24_Witness ==
    /\ last.op \in EditorExits
    /\ last.ret = HELP_KEYBINDINGS
    /\ next_action = KeyCtrlA
    /\ handling = <<>>
    /\ editors = <<>>

\* C25: when a handle_input call has returned, by whichever exit, the timeout
\* of the manager is the one it had when the call began.
C25_TimeoutRestored ==
    Returned => input_timeout = last.call[1].old_timeout

\* C25 witness: a call with a timeout of its own, begun while the manager had
\* another, has timed out
C25_Witness ==
    /\ last.op = "handle_input"
    /\ last.ret = TIMEOUT
    /\ last.call[1] = Call(1, 2)
    /\ input_timeout = 2

\* C26: during a handle_input call with a negative timeout the manager has no
\* timeout, and the call does not return TIMEOUT.
C26_NegativeTimeoutNeverTimesOut ==
    /\ (handling # <<>> /\ editors = <<>> /\ handling[1].timeout < 0) => input_timeout < 0
    /\ (last.op = "handle_input" /\ last.call[1].timeout < 0) => last.ret # TIMEOUT

(***************************************************************************)
(* The claims about the import of the legacy keymap.                       *)
(***************************************************************************)
\* the table holds what the legacy file says: each character on its action,
\* in the global context or in DEFAULTMODE, and no event in DEFAULTMODE on an
\* action the file unbinds
Merged(T, file) ==
    /\ \A ch \in DOMAIN file.keymap :
          file.keymap[ch] \notin file.unbound
          => \/ Contains(EventsOf(T, default_context_id, file.keymap[ch]), CharEvent(ch))
             \/ Contains(EventsOf(T, DEFAULTMODE, file.keymap[ch]), CharEvent(ch))
    /\ \A a \in file.unbound : EventsOf(T, DEFAULTMODE, a) = <<>>

\* C27: the legacy file changes only by being removed at the end of init, with
\* its bindings merged into the table and the user keybindings file written
\* from that table; when the save fails the legacy file and the user
\* keybindings file are kept and init is over; when there is no legacy file, or
\* one without mappings and unmappings, init writes and removes no file; and
\* once an import was saved, every later startup finds nothing to import.
C27_LegacyRemovedAfterSavedImport ==
    [][/\ keymap_file' # keymap_file
          => /\ pc = "import_keymap"
             /\ pc' = "ready"
             /\ keymap_file' = NoKeymapFile
             /\ Merged(action_contexts', keymap_file)
             /\ user_keybindings' = save(action_contexts')
       /\ (pc = "import_keymap" /\ pc' # pc /\ last'.op = "import_save_failed")
          => /\ keymap_file' = keymap_file
             /\ user_keybindings' = user_keybindings
             /\ pc' = "ready"
       /\ (pc = "import_keymap" /\ pc' # pc
             /\ (keymap_file.loaded_from = ""
                    \/ (DOMAIN keymap_file.keymap = {} /\ keymap_file.unbound = {})))
          => /\ keymap_file' = keymap_file
             /\ user_keybindings' = user_keybindings
             /\ action_contexts' = action_contexts
             /\ last'.op = "import_skipped"
       /\ (pc = "import_keymap" /\ pc' # pc /\ saved_from # <<>>)
          => last'.op = "import_skipped" /\ keymap_file' = NoKeymapFile
      ]_vars

\* C27 witness: the startup after a saved import has loaded the imported
\* binding from the user keybindings file and found no legacy file
C27_Witness ==
    /\ last.op = "import_skipped"
    /\ ops > 0
    /\ saved_from # <<>>
    /\ keymap_file = NoKeymapFile
    /\ Contains(EventsOf(action_contexts, DEFAULTMODE, "QUIT"), CharEvent(99))

(***************************************************************************)
(* The claims about the key names.                                         *)
(***************************************************************************)
Registering == last.op = "add_keycode_pair"
\* the tables before the call
TablesBefore == last.before[1]

\* C28: after the call of an add_*_keycode_pair method with a code and a name,
\* get_keycode of the family and the name is the code and the portable
\* get_keyname of the code is the name, whatever the tables held for that code
\* or that name before, and the tables of the three other families are as they
\* were before the call.
C28_RegisterLastWins ==
    Registering =>
       /\ get_keycode(last.c, last.a) = last.ret
       /\ get_keyname(last.ret, last.c) = last.a
       /\ \A f \in Families \ {last.c} :
             /\ key_to_name_maps[f] = TablesBefore.key_to_name[f]
             /\ name_to_key_maps[f] = TablesBefore.name_to_key[f]

\* a code that had another name is registered again, after the three other
\* families got entries
C28_Witness ==
    /\ Registering
    /\ last.ret \in DOMAIN TablesBefore.key_to_name[last.c]
    /\ TablesBefore.key_to_name[last.c][last.ret] # last.a
    /\ TablesBefore.key_to_name["keyboard_code"] # EmptyMap

IsDigits(number) ==
    /\ Len(number) > 0
    /\ \A i \in 1..Len(number) : CharAt(number, i) \in DOMAIN Digit
\* the digits without the zeros in front of the last one
RECURSIVE StripZeros(_)
StripZeros(number) ==
    IF Len(number) > 1 /\ CharAt(number, 1) = "0"
    THEN StripZeros(SubSeq(number, 2, Len(number)))
    ELSE number
HasPrefix(name) == Len(name) >= 8 /\ SubSeq(name, 1, 8) = "UNKNOWN_"

\* C29: get_keycode returns the code registered for the name in the family;
\* for a name that is not registered it returns the number that the digits
\* spell when the name is UNKNOWN_ followed by digits only, and 0 for every
\* other name.
C29_UnknownDigitsElseZero ==
    last.op = "get_keycode" /\ last.c \in Families =>
       IF last.a \in DOMAIN name_to_key_maps[last.c]
       THEN last.ret = name_to_key_maps[last.c][last.a]
       ELSE IF HasPrefix(last.a) /\ IsDigits(SubSeq(last.a, 9, Len(last.a)))
            THEN ToString(last.ret) = StripZeros(SubSeq(last.a, 9, Len(last.a)))
            ELSE last.ret = 0

\* C30: for every family and every code, registered or not, get_keycode of
\* the portable name that get_keyname gives the code is the code again.
C30_CodesRoundTrip ==
    last.op = "get_keyname" /\ last.c \in Families =>
       get_keycode(last.c, last.ret) = last.before[1]

\* a code without a name was looked up in a family that has names
C30_Witness ==
    /\ last.op = "get_keyname"
    /\ last.c = "keyboard_char"
    /\ last.before[1] = 9999
    /\ last.ret = "UNKNOWN_9999"
\* the characters of the loop over ' '..'~' that the model registers, with
\* the single-character name of each
PrintableName == (32 :> " " @@ 97 :> "a" @@ 126 :> "~")
KeyboardFamilies == {"keyboard_char", "keyboard_code"}
Initialized == mapped = Len(keycode_pairs)

EnabledInSession(type) ==
    is_event_type_enabled(type, last.a,
        is_keycode_mode_supported(last.before[1], last.before[2]), last.before[3])

\* C32: for every preferred keyboard mode and every setting of the build,
\* a session has exactly one of the keyboard-char and keyboard-code families
\* enabled: keyboard-code when it is the preferred mode and the build
\* supports it, keyboard-char in every other case; mouse and timeout are
\* always enabled and error never.
C32_OneKeyboardFamily ==
    last.op = "is_event_type_enabled" =>
       /\ last.ret = EnabledInSession(last.c)
       /\ EnabledInSession("keyboard_char") # EnabledInSession("keyboard_code")
       /\ EnabledInSession("keyboard_code")
             = (last.a = "keycode" /\ last.before[1] /\ ~last.before[2])
       /\ last.c \in {"mouse", "timeout"} => last.ret
       /\ last.c = "error" => ~last.ret
       /\ last.c = "keyboard_char"
             => last.ret = ~(last.a = "keycode" /\ last.before[1] /\ ~last.before[2])

\* a session that prefers key codes asked for the keyboard-char family in a
\* build that does not support key codes
C32_Witness ==
    /\ last.op = "is_event_type_enabled"
    /\ last.c = "keyboard_char"
    /\ last.a = "keycode"
    /\ ~last.before[1]
    /\ last.ret
\* C33: in every state that load, add, remove, clear_conflicts and the steps
\* of the editor reach, no context other than "default" holds an entry that
\* is user-created and has no events.
C33_NoUserCreatedEmptyLocal ==
    \A c \in ContextIds \ {default_context_id}, a \in ActionIds :
       ~UserCreatedEmpty(action_contexts, c, a)
\* an event is in the resolved bindings of two registered actions of S
Conflicting(T, S) ==
    \E e \in AllEvents, i \in 1..Len(S.registered_actions),
       j \in 1..Len(S.registered_actions) :
       /\ i # j
       /\ Contains(ResolvedEvents(T, S.category, S.registered_actions[i]), e)
       /\ Contains(ResolvedEvents(T, S.category, S.registered_actions[j]), e)

\* C34: when the editor was opened on a table in which no event is in the
\* resolved bindings of two registered actions of the session, then after any
\* sequence of its steps (add local, add global, remove, a conflict resolved
\* or the add abandoned) no event is in the resolved bindings of two
\* registered actions of the session.
C34_EditorPreventsConflicts ==
    (editors # <<>> /\ ~Conflicting(editors[1].old_action_contexts, editors[1].S))
       => ~Conflicting(action_contexts, editors[1].S)
\* the import ran: last.before[1] is the legacy file, last.seen[1] the table
\* it began on
Imported == last.op \in {"imported", "import_save_failed"}
\* the keys the legacy keymap gives the action
LegacyKeys(file, a) == {CharEvent(ch) : ch \in {c \in DOMAIN file.keymap : file.keymap[c] = a}}
ElementsOf(events) == {events[i] : i \in 1..Len(events)}

\* C35: after the import, an action that the legacy keymap binds a key to
\* and that had no entry in "default" has in DEFAULTMODE only the keys the
\* legacy keymap gives it, whatever it was bound to before; an action that has
\* an entry in "default" keeps the events of that entry and has the legacy
\* keys added to them.
C35_ImportReplacesLocalKeepsGlobal ==
    Imported =>
       \A a \in {last.before[1].keymap[ch] : ch \in DOMAIN last.before[1].keymap} :
          IF HasEntry(last.seen[1], default_context_id, a)
          THEN ElementsOf(EventsOf(action_contexts, default_context_id, a))
                  = ElementsOf(EventsOf(last.seen[1], default_context_id, a))
                       \cup LegacyKeys(last.before[1], a)
          ELSE a \notin last.before[1].unbound
               => ElementsOf(EventsOf(action_contexts, DEFAULTMODE, a))
                     = LegacyKeys(last.before[1], a)
\* C36: the remove step of the editor acts on "default" only for an action
\* that has no local entry and whose global event list is not empty, and
\* after the step "default" still holds an entry for the action, with an
\* empty event list.
C36_RemoveKeepsGlobalEntry ==
    (last.op = "editor_remove" /\ last.c = default_context_id) =>
       /\ ~HasEntry(last.before[1], Top.S.category, last.a)
       /\ EventsOf(last.before[1], default_context_id, last.a) # <<>>
       /\ HasEntry(action_contexts, default_context_id, last.a)
       /\ EventsOf(action_contexts, default_context_id, last.a) = <<>>
\* C37: the session that an editor opens registers HELP_KEYBINDINGS only when
\* the context edited is not HELP_KEYBINDINGS, the editor opened from within
\* an editor edits the context HELP_KEYBINDINGS and so opens no further one,
\* and below one handle_input of the session at most two editors are active.
C37_EditorsNestTwoDeep ==
    /\ Len(editors) <= 2
    /\ \A i \in 1..Len(editors) :
          /\ editors[i].ctxt.category = HELP_KEYBINDINGS
          /\ Contains(editors[i].ctxt.registered_actions, HELP_KEYBINDINGS)
                <=> editors[i].S.category # HELP_KEYBINDINGS
          /\ i > 1 => editors[i].S = editors[i - 1].ctxt

\* the editor that handle_input opened has opened an editor of its own
C37_Witness ==
    /\ Len(editors) = 2
    /\ Len(handling) = 2
    /\ editors[1].S.category = default_context_id
    /\ last.op = "editor_help"
\* the loop of the editor on top ends
LoopEnds == editors # <<>> /\ Len(editors') < Len(editors)
Pending == editors # <<>> /\ Top.status # "s_show"

\* C38 as stated: the loop of the editor ends only when QUIT is received, and
\* a QUIT received while an add, add-global, remove or execute mode is
\* pending ends it as well.
C38_QuitAlwaysEnds ==
    [][/\ LoopEnds => EditorQuit
       /\ EditorQuit => LoopEnds
      ]_vars

\* C38 amended: the loop of the editor ends only when QUIT is received while
\* no mode is pending or when a row is selected in execute mode; a QUIT
\* received while an add, add-global, remove or execute mode is pending does
\* not end it: the mode is dropped, no binding changes and the loop goes on.
C38_QuitEndsWhenShowing ==
    [][/\ LoopEnds => \/ EditorQuit /\ ~Pending
                      \/ EditorSelect /\ Top.status = "s_execute"
                                      /\ Top.permit_execute_action
       /\ (EditorQuit /\ ~Pending) => LoopEnds
       /\ (EditorQuit /\ Pending)
          => /\ editors' = SetTop([Top EXCEPT !.status = "s_show"])
             /\ \A c \in ContextIds, a \in ActionIds :
                   EventsOf(action_contexts', c, a) = EventsOf(action_contexts, c, a)
      ]_vars

\* QUIT was received while a mode was pending, and the editor is showing again
C38_Witness ==
    /\ last.op = "editor_step"
    /\ last.a = "QUIT"
    /\ editors # <<>>
    /\ Top.status = "s_show"
\* C39: add(a, c, e) for a context c that has no entry for a creates an
\* entry that is user-created and whose event list is exactly <<e>>, with
\* none of the global events of a: resolve(a, c) then returns only e, and the
\* lookup of a session of context c maps none of the other global events of
\* a to a; add to an entry that exists leaves its user-created flag as it was.
C39_AddCreatesBareUserEntry ==
    last.op = "add" =>
       /\ HasEntry(action_contexts, last.c, last.a)
       /\ IF last.before = <<>>
          THEN /\ action_contexts[last.c][last.a].is_user_created
               /\ action_contexts[last.c][last.a].input_events = <<last.e>>
               /\ get_action_attributes(action_contexts, last.a, last.c).attrs.input_events
                     = <<last.e>>
               /\ category = last.c
                  => \A g \in ElementsOf(EventsOf(action_contexts, default_context_id,
                                                  last.a)) \ {last.e} :
                        input_to_action(action_contexts, This, g).ret # last.a
          ELSE action_contexts[last.c][last.a].is_user_created
                  = last.before[1].is_user_created

\* an add made the first local entry of a registered action that has global
\* events, in the context of the session
C39_Witness ==
    /\ last.op = "add"
    /\ last.before = <<>>
    /\ last.c = "vehicle"
    /\ category = "vehicle"
    /\ Registered(last.a)
    /\ ElementsOf(EventsOf(action_contexts, default_context_id, last.a)) \ {last.e} # {}
\* C40: handle_input never returns "ERROR": what a call of the session
\* returns is TIMEOUT (on a timeout event), HELP_KEYBINDINGS (registered, after
\* the editor), ANY_INPUT when the catch-all is registered, or a registered
\* action whose resolved bindings hold the last event consumed; that event is
\* the one get_raw_input reports.
C40_NeverReturnsError ==
    (Returned /\ handling = <<>>) =>
       /\ last.ret # CATA_ERROR
       /\ \/ last.ret = TIMEOUT /\ next_action.type = "timeout"
          \/ last.ret = HELP_KEYBINDINGS /\ Registered(HELP_KEYBINDINGS)
          \/ last.ret = ANY_INPUT /\ registered_any_input
                /\ NoMatch(next_action)
          \/ /\ Registered(last.ret)
             /\ Contains(ResolvedEvents(action_contexts, category, last.ret), next_action)
       /\ last.op = "handle_input" => next_action = last.e

\* a call returned a registered action on a mouse event, in a session that
\* has no catch-all
C40_Witness ==
    /\ last.op = "handle_input"
    /\ last.ret = "UP"
    /\ last.e = MouseMove
    /\ next_action = MouseMove
    /\ ~registered_any_input
    /\ handling = <<>>
====
